---------------------------- MODULE Spec2Model ----------------------------
(***************************************************************************)
(* Model of the NYC sublet scraper: the Listing record, the fingerprint,   *)
(* the deduplication engine (src/dedup/deduplicator.py), the sheet sync    *)
(* (src/sheets/sync.py), the pipeline orchestrator (src/main.py), the      *)
(* scoring engine (src/scoring/rating.py) and the date parser              *)
(* (src/parsers/date_parser.py).                                           *)
(*                                                                         *)
(* Text is modelled as a sequence of character codes:                      *)
(*   0 = space, 1..26 = 'a'..'z', 101..126 = 'A'..'Z', 27 = apostrophe,    *)
(*   28 = hyphen, 29 = slash, 30..39 = '0'..'9'.                           *)
(* URLs and enum values are opaque strings ("" is the empty URL).          *)
(* An Optional[int] is a sequence of length at most one: << >> is None.    *)
(* A fingerprint (sha256(content)[:16]) is modelled by its content, that   *)
(* is, the digest is taken to be collision free.                           *)
(***************************************************************************)
EXTENDS Integers, Sequences, FiniteSets, TLC

VARIABLES
    pc,                  \* position of the running operation
    listings,            \* the batch handed to deduplicate (ids are assigned in place)
    idx,                 \* deduplicate: index of the next record of the batch
    seen_fingerprints,   \* Deduplicator._seen_fingerprints
    batch_fingerprints,  \* deduplicate: batch_fingerprints
    new_listings,        \* deduplicate: new_listings (the returned list)
    kept,                \* positions of the batch that new_listings holds, in order
    round,               \* which call of deduplicate on this batch is running
    first_out,           \* what the first call on this batch returned
    pair,                \* the pair handed to _are_likely_duplicates
    verdict,             \* its results: for (a, b) and for (b, a)
    worksheet,           \* data rows of the main worksheet (below the header)
    seen_ws,             \* data rows of the _seen worksheet
    dry_run,             \* main: the dry_run argument
    sheet_sync,          \* main: whether sheet_sync is a SheetSync (not None)
    settings,            \* main: settings
    runs,                \* pipeline runs started so far
    written,             \* the ids of the rows that runs of main have appended
    scrapes,             \* main, Phase 1: what each scraper of the run did, in registry order
    fps,                 \* generate_fingerprint: what each call returned, for both records of pair
    ratings,             \* compute_rating: what each call returned, for both records of pair
    raw,                 \* parse_date: the raw argument
    parsed               \* parse_date: its outcome (a date, None, or the error raised)

dedupVars == <<listings, idx, seen_fingerprints, batch_fingerprints, new_listings, kept>>
harnessVars == <<round, first_out>>
callVars == <<fps, ratings, raw, parsed>>
pairVars == <<pair, verdict, callVars>>
sheetVars == <<worksheet, seen_ws>>
runVars == <<dry_run, sheet_sync, settings, runs, written, scrapes>>

vars == <<pc, dedupVars, harnessVars, pairVars, sheetVars, runVars>>

-----------------------------------------------------------------------------
(* Bounds of the model *)

MaxBatch == 3
MaxPerSource == 1
MaxRuns == 2

(* Program constants *)

PriceTolerance == 50
TextWindow == 200
SimilarityThreshold == 70
FingerprintTokens == 50

-----------------------------------------------------------------------------
(* Strings *)

IsSpace(c) == c = 0

IsUpper(c) == c > 100

\* str.lower()
LowerChar(c) == IF IsUpper(c) THEN c - 100 ELSE c

Lower(s) == [k \in 1..Len(s) |-> LowerChar(s[k])]

\* s[:n]
Prefix(s, n) == IF Len(s) <= n THEN s ELSE SubSeq(s, 1, n)

\* str.split(): the maximal runs of non-space characters, in order
RECURSIVE SplitFrom(_, _, _)
SplitFrom(s, k, cur) ==
    IF k > Len(s)
    THEN IF cur = << >> THEN << >> ELSE <<cur>>
    ELSE IF IsSpace(s[k])
         THEN IF cur = << >>
              THEN SplitFrom(s, k + 1, << >>)
              ELSE <<cur>> \o SplitFrom(s, k + 1, << >>)
         ELSE SplitFrom(s, k + 1, Append(cur, s[k]))

Split(s) == SplitFrom(s, 1, << >>)

\* " ".join(tokens)
RECURSIVE Join(_)
Join(toks) ==
    IF toks = << >> THEN << >>
    ELSE IF Len(toks) = 1 THEN toks[1]
    ELSE toks[1] \o <<0>> \o Join(Tail(toks))

\* Python's order on str: lexicographic by code point (upper case first)
CodePoint(c) ==
    IF IsSpace(c) THEN 32
    ELSE IF IsUpper(c) THEN c - 100 + 64
    ELSE IF c = 27 THEN 39
    ELSE IF c = 28 THEN 45
    ELSE IF c >= 30 THEN c - 30 + 48
    ELSE c + 96

RECURSIVE StrLess(_, _)
StrLess(s, t) ==
    IF t = << >> THEN FALSE
    ELSE IF s = << >> THEN TRUE
    ELSE IF CodePoint(Head(s)) # CodePoint(Head(t))
         THEN CodePoint(Head(s)) < CodePoint(Head(t))
         ELSE StrLess(Tail(s), Tail(t))

\* sorted(tokens): insertion sort, stable
RECURSIVE InsertSorted(_, _)
InsertSorted(tok, sorted) ==
    IF sorted = << >> THEN <<tok>>
    ELSE IF StrLess(tok, Head(sorted))
         THEN <<tok>> \o sorted
         ELSE <<Head(sorted)>> \o InsertSorted(tok, Tail(sorted))

RECURSIVE SortTokens(_)
SortTokens(toks) ==
    IF toks = << >> THEN << >>
    ELSE InsertSorted(toks[Len(toks)], SortTokens(SubSeq(toks, 1, Len(toks) - 1)))

\* length of a longest common subsequence
LCS(s, t) ==
    LET m == Len(s)
        n == Len(t)
        L[i \in 0..m, j \in 0..n] ==
            IF i = 0 \/ j = 0 THEN 0
            ELSE IF s[i] = t[j] THEN L[i - 1, j - 1] + 1
            ELSE IF L[i - 1, j] >= L[i, j - 1] THEN L[i - 1, j] ELSE L[i, j - 1]
    IN  L[m, n]

\* int(round(x)) for x = num / den >= 0: round half to even
RoundHalfEven(num, den) ==
    LET q == num \div den
        r == num % den
    IN  IF 2 * r > den THEN q + 1
        ELSE IF 2 * r < den THEN q
        ELSE IF q % 2 = 0 THEN q ELSE q + 1

\* fuzz.ratio: the normalised indel similarity, 0..100
Ratio(s, t) ==
    IF Len(s) + Len(t) = 0 THEN 100
    ELSE RoundHalfEven(200 * LCS(s, t), Len(s) + Len(t))

IsAlnum(c) == (c >= 1 /\ c <= 26) \/ IsUpper(c) \/ (c >= 30 /\ c <= 39)

\* utils.full_process: every non-alphanumeric character becomes a space, then
\* lower case (the strip is subsumed by the split that follows)
FullProcess(s) == Lower([k \in 1..Len(s) |-> IF IsAlnum(s[k]) THEN s[k] ELSE 0])

\* fuzz.token_sort_ratio: process, split, sort the tokens, join, compare
ProcessAndSort(s) == Join(SortTokens(Split(FullProcess(s))))

\* pattern in s
Contains(s, pattern) ==
    \E k \in 0..(Len(s) - Len(pattern)) :
        \A j \in 1..Len(pattern) : s[k + j] = pattern[j]

-----------------------------------------------------------------------------
(* Exact fractions <<numerator, denominator>>, denominator > 0, for the
   float arithmetic of the scores *)

RECURSIVE GCD(_, _)
GCD(a, b) == IF b = 0 THEN a ELSE GCD(b, a % b)

Frac(n, d) ==
    LET g == GCD(IF n < 0 THEN -n ELSE n, d)
    IN  IF n = 0 THEN <<0, 1>> ELSE <<n \div g, d \div g>>

Whole(n) == <<n, 1>>
Half(n) == Frac(n, 2)    \* n / 2

FAdd(x, y) == Frac(x[1] * y[2] + y[1] * x[2], x[2] * y[2])
FSub(x, y) == Frac(x[1] * y[2] - y[1] * x[2], x[2] * y[2])
FMul(x, y) == Frac(x[1] * y[1], x[2] * y[2])
FLeq(x, y) == x[1] * y[2] <= y[1] * x[2]
FMin(x, y) == IF FLeq(x, y) THEN x ELSE y
FMax(x, y) == IF FLeq(x, y) THEN y ELSE x

\* What a float division by zero gives: the exception, written as the
\* fraction with denominator 0 (which no Frac is)
ZeroDivisionError == <<0, 0>>

\* n / d of two ints
Divide(n, d) ==
    IF d = 0 THEN ZeroDivisionError
    ELSE IF d > 0 THEN Frac(n, d) ELSE Frac(-n, -d)

-----------------------------------------------------------------------------
(* datetime.date as <<year, month, day>> *)

IsLeap(y) == (y % 4 = 0 /\ y % 100 # 0) \/ y % 400 = 0

DaysInMonth(y, m) ==
    IF m = 2 THEN (IF IsLeap(y) THEN 29 ELSE 28)
    ELSE IF m \in {4, 6, 9, 11} THEN 30 ELSE 31

RECURSIVE DaysBeforeMonth(_, _)
DaysBeforeMonth(y, m) ==
    IF m = 1 THEN 0 ELSE DaysBeforeMonth(y, m - 1) + DaysInMonth(y, m - 1)

\* date.toordinal()
ToOrdinal(d) ==
    LET y == d[1] - 1
    IN  y * 365 + y \div 4 - y \div 100 + y \div 400 + DaysBeforeMonth(d[1], d[2]) + d[3]

\* (a - b).days
DaysBetween(a, b) == ToOrdinal(a) - ToOrdinal(b)

DateLeq(a, b) == ToOrdinal(a) <= ToOrdinal(b)
DateMax(a, b) == IF DateLeq(a, b) THEN b ELSE a
DateMin(a, b) == IF DateLeq(a, b) THEN a ELSE b

TokenSortRatio(s, t) == Ratio(ProcessAndSort(s), ProcessAndSort(t))

-----------------------------------------------------------------------------
(* models/enums.py, models/listing.py *)

FACEBOOK == "Facebook"
CRAIGSLIST == "Craigslist"
LEASEBREAK == "LeaseBreak"

STUDIO == "Studio"
ONE_BEDROOM == "1BR"
UNKNOWN_TYPE == "Unknown"

None == << >>
Some(v) == <<v>>

\* "" as an id; an id is falsy exactly when it is this one
NoId == << >>

\* Listing(source=...): every other field at its default.  Dates are
\* <<year, month, day>>; the rating is kept in tenths.
NewListing(src) ==
    [ id |-> NoId, source |-> src, source_url |-> "", raw_text |-> << >>,
      title |-> << >>, price_monthly |-> None, price_raw |-> << >>,
      neighborhood |-> << >>, borough |-> "Unknown", address |-> << >>,
      listing_type |-> UNKNOWN_TYPE, apartment_details |-> << >>,
      is_furnished |-> None, available_from |-> None, available_to |-> None,
      rating |-> 0, rating_breakdown |-> << >>, posted_date |-> None,
      scraped_at |-> 0, description |-> << >>, contact_info |-> << >>,
      images |-> << >> ]

\* " ".join(self.raw_text.lower().split()[:50])
NormalizedText(raw_text) == Join(Prefix(Split(Lower(raw_text)), FingerprintTokens))

\* The string that generate_fingerprint hashes.  The URL form and the
\* content form are kept apart by their first component.
FingerprintContent(l) ==
    IF l.source # FACEBOOK /\ l.source_url # ""
    THEN <<"url", l.source_url, None, << >>, "", << >>>>
    ELSE <<"content", "", l.price_monthly, Lower(l.neighborhood),
           l.listing_type, NormalizedText(l.raw_text)>>

ContentOnlyFingerprint(l) ==
    <<"content", "", l.price_monthly, Lower(l.neighborhood),
      l.listing_type, NormalizedText(l.raw_text)>>

\* the content form over "description or raw_text" instead of raw_text
DescriptionFingerprint(l) ==
    IF l.source # FACEBOOK /\ l.source_url # ""
    THEN <<"url", l.source_url, None, << >>, "", << >>>>
    ELSE <<"content", "", l.price_monthly, Lower(l.neighborhood), l.listing_type,
           NormalizedText(IF l.description # << >> THEN l.description ELSE l.raw_text)>>

\* generate_fingerprint: the digest of that string
GenerateFingerprint(l) == FingerprintContent(l)

\* an id assigned upstream that is no fingerprint of any record
UpstreamId(name) == <<"id", name, None, << >>, "", << >>>>

-----------------------------------------------------------------------------
(* dedup/deduplicator.py: _are_likely_duplicates *)

\* truthiness of an Optional[int]: None and 0 are falsy
Truthy(p) == p # None /\ p[1] # 0

Abs(x) == IF x < 0 THEN -x ELSE x

\* description or raw_text, cut to the comparison window
CompareText(l) ==
    Prefix(IF l.description # << >> THEN l.description ELSE l.raw_text, TextWindow)

PriceCheckNoAbs(a, b) ==
    IF Truthy(a.price_monthly) /\ Truthy(b.price_monthly)
    THEN IF a.price_monthly[1] - b.price_monthly[1] > PriceTolerance
         THEN 78 ELSE 0
    ELSE IF a.price_monthly # b.price_monthly THEN 80 ELSE 0

PriceCheckExclusive(a, b) ==
    IF Truthy(a.price_monthly) /\ Truthy(b.price_monthly)
    THEN IF Abs(a.price_monthly[1] - b.price_monthly[1]) >= PriceTolerance
         THEN 78 ELSE 0
    ELSE IF a.price_monthly # b.price_monthly THEN 80 ELSE 0

\* Lines 76-80, the price check: the line that returns False, or 0 when the
\* check lets the pair through.
PriceCheck(a, b) ==
    IF Truthy(a.price_monthly) /\ Truthy(b.price_monthly)
    THEN IF Abs(a.price_monthly[1] - b.price_monthly[1]) > PriceTolerance
         THEN 78 ELSE 0
    ELSE IF a.price_monthly # b.price_monthly THEN 80 ELSE 0

\* Lines 83-85, the neighbourhood check
NeighborhoodCheck(a, b) ==
    IF a.neighborhood # << >> /\ b.neighborhood # << >>
       /\ Lower(a.neighborhood) # Lower(b.neighborhood)
    THEN 85 ELSE 0

\* Lines 88-89, the type check
TypeCheck(a, b) == IF a.listing_type # b.listing_type THEN 89 ELSE 0

\* the text check with a missing text counted as a match
TextCheckLenient(a, b) ==
    IF CompareText(a) # << >> /\ CompareText(b) # << >>
    THEN [dup |-> TokenSortRatio(CompareText(a), CompareText(b)) > SimilarityThreshold,
          line |-> 96]
    ELSE [dup |-> TRUE, line |-> 98]


\* Lines 92-98, the text check, which decides
TextCheck(a, b) ==
    IF CompareText(a) # << >> /\ CompareText(b) # << >>
    THEN [dup |-> TokenSortRatio(CompareText(a), CompareText(b)) > SimilarityThreshold,
          line |-> 96]
    ELSE [dup |-> FALSE, line |-> 98]

\* The result of _are_likely_duplicates(a, b) and the line that returns it.
AreLikelyDuplicatesAt(a, b) ==
    IF PriceCheck(a, b) # 0 THEN [dup |-> FALSE, line |-> PriceCheck(a, b)]
    ELSE IF NeighborhoodCheck(a, b) # 0 THEN [dup |-> FALSE, line |-> 85]
    ELSE IF TypeCheck(a, b) # 0 THEN [dup |-> FALSE, line |-> 89]
    ELSE TextCheck(a, b)

AreLikelyDuplicates(a, b) == AreLikelyDuplicatesAt(a, b).dup

\* _is_fuzzy_duplicate(candidate, existing)
IsFuzzyDuplicate(candidate, existing) ==
    \E k \in 1..Len(existing) : AreLikelyDuplicates(candidate, existing[k])

-----------------------------------------------------------------------------
(* config/settings.py, config/scoring_weights.py *)

\* Settings(): the defaults, with the spreadsheet id the environment gives
Settings(spreadsheet_id) ==
    [ spreadsheet_id |-> spreadsheet_id, max_budget |-> 2000,
      target_start_date |-> <<2026, 7, 1>>,
      target_end_date_min |-> <<2026, 8, 31>>,
      target_end_date_ideal |-> <<2026, 9, 30>> ]

\* WEIGHTS, in hundredths
WEIGHTS == [price |-> 25, location |-> 30, type |-> 20, timing |-> 15, bonus |-> 10]

Dimensions == <<"price", "location", "type", "timing", "bonus">>

\* LOCATION_TIERS: tier -> the neighbourhood names of the tier, in order
LOCATION_TIERS ==
    <<
      << \* tier 1
         <<113, 9, 4, 20, 15, 23, 14, 0, 105, 1, 19, 20>>,   \* Midtown East
         <<113, 21, 18, 18, 1, 25, 0, 108, 9, 12, 12>>,   \* Murray Hill
         <<120, 21, 18, 20, 12, 5, 0, 102, 1, 25>>,   \* Turtle Bay
         <<111, 9, 16, 19, 0, 102, 1, 25>>,   \* Kips Bay
         <<120, 21, 4, 15, 18, 0, 103, 9, 20, 25>>,   \* Tudor City
         <<119, 21, 20, 20, 15, 14, 0, 116, 12, 1, 3, 5>>   \* Sutton Place
      >>,
      << \* tier 2
         <<112, 15, 23, 5, 18, 0, 105, 1, 19, 20, 0, 119, 9, 4, 5>>,   \* Lower East Side
         <<105, 1, 19, 20, 0, 122, 9, 12, 12, 1, 7, 5>>,   \* East Village
         <<114, 15, 12, 9, 20, 1>>,   \* Nolita
         <<101, 12, 16, 8, 1, 2, 5, 20, 0, 103, 9, 20, 25>>,   \* Alphabet City
         <<120, 23, 15, 0, 102, 18, 9, 4, 7, 5, 19>>   \* Two Bridges
      >>,
      << \* tier 3
         <<113, 9, 4, 20, 15, 23, 14>>,   \* Midtown
         <<113, 9, 4, 20, 15, 23, 14, 0, 123, 5, 19, 20>>,   \* Midtown West
         <<108, 5, 12, 12, 27, 19, 0, 111, 9, 20, 3, 8, 5, 14>>,   \* Hell's Kitchen
         <<103, 8, 5, 12, 19, 5, 1>>,   \* Chelsea
         <<106, 12, 1, 20, 9, 18, 15, 14>>,   \* Flatiron
         <<107, 18, 1, 13, 5, 18, 3, 25>>,   \* Gramercy
         <<121, 14, 9, 15, 14, 0, 119, 17, 21, 1, 18, 5>>,   \* Union Square
         <<114, 15, 113, 1, 4>>,   \* NoMad
         <<108, 21, 4, 19, 15, 14, 0, 125, 1, 18, 4, 19>>,   \* Hudson Yards
         <<123, 5, 19, 20, 0, 122, 9, 12, 12, 1, 7, 5>>,   \* West Village
         <<107, 18, 5, 5, 14, 23, 9, 3, 8, 0, 122, 9, 12, 12, 1, 7, 5>>,   \* Greenwich Village
         <<119, 15, 108, 15>>,   \* SoHo
         <<114, 15, 108, 15>>,   \* NoHo
         <<120, 18, 9, 2, 5, 3, 1>>,   \* Tribeca
         <<106, 9, 14, 1, 14, 3, 9, 1, 12, 0, 104, 9, 19, 20, 18, 9, 3, 20>>,   \* Financial District
         <<102, 1, 20, 20, 5, 18, 25, 0, 116, 1, 18, 11, 0, 103, 9, 20, 25>>,   \* Battery Park City
         <<103, 8, 9, 14, 1, 20, 15, 23, 14>>,   \* Chinatown
         <<112, 9, 20, 20, 12, 5, 0, 109, 20, 1, 12, 25>>   \* Little Italy
      >>,
      << \* tier 4
         <<121, 16, 16, 5, 18, 0, 105, 1, 19, 20, 0, 119, 9, 4, 5>>,   \* Upper East Side
         <<125, 15, 18, 11, 22, 9, 12, 12, 5>>,   \* Yorkville
         <<112, 5, 14, 15, 24, 0, 108, 9, 12, 12>>,   \* Lenox Hill
         <<103, 1, 18, 14, 5, 7, 9, 5, 0, 108, 9, 12, 12>>,   \* Carnegie Hill
         <<121, 16, 16, 5, 18, 0, 123, 5, 19, 20, 0, 119, 9, 4, 5>>   \* Upper West Side
      >>,
      << \* tier 5
         <<123, 9, 12, 12, 9, 1, 13, 19, 2, 21, 18, 7>>,   \* Williamsburg
         <<104, 121, 113, 102, 115>>,   \* DUMBO
         <<102, 18, 15, 15, 11, 12, 25, 14, 0, 108, 5, 9, 7, 8, 20, 19>>,   \* Brooklyn Heights
         <<104, 15, 23, 14, 20, 15, 23, 14, 0, 102, 18, 15, 15, 11, 12, 25, 14>>,   \* Downtown Brooklyn
         <<106, 15, 18, 20, 0, 107, 18, 5, 5, 14, 5>>,   \* Fort Greene
         <<103, 12, 9, 14, 20, 15, 14, 0, 108, 9, 12, 12>>,   \* Clinton Hill
         <<116, 1, 18, 11, 0, 119, 12, 15, 16, 5>>,   \* Park Slope
         <<103, 15, 2, 2, 12, 5, 0, 108, 9, 12, 12>>,   \* Cobble Hill
         <<102, 15, 5, 18, 21, 13, 0, 108, 9, 12, 12>>,   \* Boerum Hill
         <<103, 1, 18, 18, 15, 12, 12, 0, 107, 1, 18, 4, 5, 14, 19>>,   \* Carroll Gardens
         <<116, 18, 15, 19, 16, 5, 3, 20, 0, 108, 5, 9, 7, 8, 20, 19>>,   \* Prospect Heights
         <<107, 18, 5, 5, 14, 16, 15, 9, 14, 20>>,   \* Greenpoint
         <<102, 21, 19, 8, 23, 9, 3, 11>>,   \* Bushwick
         <<102, 5, 4, 28, 119, 20, 21, 25>>,   \* Bed-Stuy
         <<112, 15, 14, 7, 0, 109, 19, 12, 1, 14, 4, 0, 103, 9, 20, 25>>,   \* Long Island City
         <<101, 19, 20, 15, 18, 9, 1>>,   \* Astoria
         <<119, 21, 14, 14, 25, 19, 9, 4, 5>>   \* Sunnyside
      >>
    >>

\* LOCATION_TIER_SCORES
LOCATION_TIER_SCORES == <<Whole(10), Whole(8), Half(13), Whole(5), Half(7)>>

\* BOROUGH_FALLBACK_SCORES.get(borough, 2.0)
BoroughFallbackScore(borough) ==
    CASE borough = "Manhattan" -> Whole(5)
      [] borough = "Brooklyn" -> Whole(3)
      [] borough = "Queens" -> Half(5)
      [] borough = "Bronx" -> Half(3)
      [] borough = "Staten Island" -> Whole(1)
      [] borough = "Unknown" -> Whole(2)
      [] OTHER -> Whole(2)

TRUSTED_SOURCES == {"LeaseBreak", "Listings Project", "Furnished Finder"}

-----------------------------------------------------------------------------
(* scoring/rating.py *)

\* score_price with the linear tier rising instead of falling
score_price_rising(price_monthly) ==
    IF price_monthly = None THEN Whole(4)
    ELSE LET p == price_monthly[1]
         IN  IF p <= 1200 THEN Whole(10)
             ELSE IF p <= 1500 THEN Whole(9)
             ELSE IF p <= 1700 THEN Whole(8)
             ELSE IF p <= 1850 THEN Whole(7)
             ELSE IF p <= 2000 THEN FAdd(Whole(5), Frac(2 * (p - 1850), 150))
             ELSE IF p <= 2200 THEN Whole(2)
             ELSE Whole(0)

score_price(price_monthly) ==
    IF price_monthly = None THEN Whole(4)
    ELSE LET p == price_monthly[1]
         IN  IF p <= 1200 THEN Whole(10)
             ELSE IF p <= 1500 THEN Whole(9)
             ELSE IF p <= 1700 THEN Whole(8)
             ELSE IF p <= 1850 THEN Whole(7)
             ELSE IF p <= 2000 THEN FAdd(Whole(5), Frac(2 * (2000 - p), 150))
             ELSE IF p <= 2200 THEN Whole(2)
             ELSE Whole(0)

\* The first of the tiers (in table order), 0 when there is none
FirstTier(hits) ==
    IF hits = {} THEN 0 ELSE CHOOSE t \in hits : \A u \in hits : t <= u

\* score_location with the substring pass before the exact pass
score_location_partial_first(neighborhood, borough) ==
    LET low == Lower(neighborhood)
        Tiers == 1..Len(LOCATION_TIERS)
        partial == FirstTier({t \in Tiers :
                      \E k \in 1..Len(LOCATION_TIERS[t]) :
                          \/ Contains(low, Lower(LOCATION_TIERS[t][k]))
                          \/ Contains(Lower(LOCATION_TIERS[t][k]), low)})
    IN  IF neighborhood = << >> THEN BoroughFallbackScore(borough)
        ELSE IF partial # 0 THEN LOCATION_TIER_SCORES[partial]
        ELSE BoroughFallbackScore(borough)

score_location(neighborhood, borough) ==
    LET low == Lower(neighborhood)
        Tiers == 1..Len(LOCATION_TIERS)
        exact == FirstTier({t \in Tiers :
                    \E k \in 1..Len(LOCATION_TIERS[t]) :
                        Lower(LOCATION_TIERS[t][k]) = low})
        partial == FirstTier({t \in Tiers :
                      \E k \in 1..Len(LOCATION_TIERS[t]) :
                          \/ Contains(low, Lower(LOCATION_TIERS[t][k]))
                          \/ Contains(Lower(LOCATION_TIERS[t][k]), low)})
    IN  IF neighborhood = << >> THEN BoroughFallbackScore(borough)
        ELSE IF exact # 0 THEN LOCATION_TIER_SCORES[exact]
        ELSE IF partial # 0 THEN LOCATION_TIER_SCORES[partial]
        ELSE BoroughFallbackScore(borough)

\* TYPE_SCORES.get(listing_type, 3.0)
score_type(listing_type) ==
    CASE listing_type = "Studio" -> Whole(10)
      [] listing_type = "1BR" -> Whole(9)
      [] listing_type = "2BR" -> Whole(6)
      [] listing_type = "3BR+" -> Whole(5)
      [] listing_type = "Hotel/Extended Stay" -> Whole(7)
      [] listing_type = "Room in Shared" -> Half(9)
      [] listing_type = "Unknown" -> Whole(3)
      [] OTHER -> Whole(3)

\* score_timing without the guard of lines 125-126
score_timing_unguarded(available_from, available_to, target_start, target_end) ==
    LET start == IF available_from # None THEN available_from[1] ELSE <<2026, 6, 1>>
        end == IF available_to # None THEN available_to[1] ELSE <<2026, 12, 31>>
        overlap_start == DateMax(start, target_start)
        overlap_end == DateMin(end, target_end)
        target_days == DaysBetween(target_end, target_start)
        overlap_days == DaysBetween(overlap_end, overlap_start)
        coverage_ratio == Divide(overlap_days, target_days)
        days_late == DaysBetween(start, target_start)
        start_penalty == IF days_late > 7 THEN FMin(Whole(3), Frac(days_late * 2, 10))
                         ELSE Whole(0)
        end_bonus == IF DateLeq(<<2026, 9, 30>>, end) THEN Whole(1)
                     ELSE IF DateLeq(<<2026, 8, 31>>, end) THEN Half(1)
                     ELSE Whole(0)
        score == FSub(FAdd(FMul(coverage_ratio, Whole(8)), end_bonus), start_penalty)
    IN  IF available_from = None /\ available_to = None THEN Whole(5)
        ELSE IF ~DateLeq(overlap_start, overlap_end) THEN Whole(0)
        ELSE IF coverage_ratio = ZeroDivisionError THEN ZeroDivisionError
        ELSE FMax(Whole(0), FMin(Whole(10), score))

\* score_timing with the start penalty added instead of subtracted
score_timing_late_bonus(available_from, available_to, target_start, target_end) ==
    LET start == IF available_from # None THEN available_from[1] ELSE <<2026, 6, 1>>
        end == IF available_to # None THEN available_to[1] ELSE <<2026, 12, 31>>
        overlap_start == DateMax(start, target_start)
        overlap_end == DateMin(end, target_end)
        target_days == DaysBetween(target_end, target_start)
        overlap_days == DaysBetween(overlap_end, overlap_start)
        coverage_ratio == Divide(overlap_days, target_days)
        days_late == DaysBetween(start, target_start)
        start_penalty == IF days_late > 7 THEN FMin(Whole(3), Frac(days_late * 2, 10))
                         ELSE Whole(0)
        end_bonus == IF DateLeq(<<2026, 9, 30>>, end) THEN Whole(1)
                     ELSE IF DateLeq(<<2026, 8, 31>>, end) THEN Half(1)
                     ELSE Whole(0)
        score == FAdd(FAdd(FMul(coverage_ratio, Whole(8)), end_bonus), start_penalty)
    IN  IF available_from = None /\ available_to = None THEN Whole(5)
        ELSE IF ~DateLeq(overlap_start, overlap_end) THEN Whole(0)
        ELSE IF target_days = 0 THEN Whole(5)
        ELSE IF coverage_ratio = ZeroDivisionError THEN ZeroDivisionError
        ELSE FMax(Whole(0), FMin(Whole(10), score))

score_timing(available_from, available_to, target_start, target_end) ==
    LET start == IF available_from # None THEN available_from[1] ELSE <<2026, 6, 1>>
        end == IF available_to # None THEN available_to[1] ELSE <<2026, 12, 31>>
        overlap_start == DateMax(start, target_start)
        overlap_end == DateMin(end, target_end)
        target_days == DaysBetween(target_end, target_start)
        overlap_days == DaysBetween(overlap_end, overlap_start)
        coverage_ratio == Divide(overlap_days, target_days)
        days_late == DaysBetween(start, target_start)
        start_penalty == IF days_late > 7 THEN FMin(Whole(3), Frac(days_late * 2, 10))
                         ELSE Whole(0)
        end_bonus == IF DateLeq(<<2026, 9, 30>>, end) THEN Whole(1)
                     ELSE IF DateLeq(<<2026, 8, 31>>, end) THEN Half(1)
                     ELSE Whole(0)
        score == FSub(FAdd(FMul(coverage_ratio, Whole(8)), end_bonus), start_penalty)
    IN  IF available_from = None /\ available_to = None THEN Whole(5)
        ELSE IF ~DateLeq(overlap_start, overlap_end) THEN Whole(0)
        ELSE IF target_days = 0 THEN Whole(5)
        ELSE IF coverage_ratio = ZeroDivisionError THEN ZeroDivisionError
        ELSE FMax(Whole(0), FMin(Whole(10), score))

\* score_bonus counting a known furnished flag, true or false
score_bonus_known_furnished(l) ==
    LET furnished == IF l.is_furnished # None THEN Whole(3) ELSE Whole(0)
        images == IF l.images # << >> THEN Whole(2) ELSE Whole(0)
        trusted == IF l.source \in TRUSTED_SOURCES THEN Whole(2) ELSE Whole(0)
        address == IF l.address # << >> THEN Half(3) ELSE Whole(0)
        contact == IF l.contact_info # << >> THEN Half(3) ELSE Whole(0)
    IN  FMin(Whole(10), FAdd(FAdd(FAdd(FAdd(furnished, images), trusted), address), contact))

score_bonus(l) ==
    LET furnished == IF l.is_furnished = <<TRUE>> THEN Whole(3) ELSE Whole(0)
        images == IF l.images # << >> THEN Whole(2) ELSE Whole(0)
        trusted == IF l.source \in TRUSTED_SOURCES THEN Whole(2) ELSE Whole(0)
        address == IF l.address # << >> THEN Half(3) ELSE Whole(0)
        contact == IF l.contact_info # << >> THEN Half(3) ELSE Whole(0)
    IN  FMin(Whole(10), FAdd(FAdd(FAdd(FAdd(furnished, images), trusted), address), contact))

\* compute_rating: the breakdown
Breakdown(l, cfg) ==
    [ price |-> score_price(l.price_monthly),
      location |-> score_location(l.neighborhood, l.borough),
      type |-> score_type(l.listing_type),
      timing |-> score_timing(l.available_from, l.available_to,
                              cfg.target_start_date, cfg.target_end_date_ideal),
      bonus |-> score_bonus(l) ]

RECURSIVE WeightedSum(_, _)
WeightedSum(breakdown, k) ==
    IF k > Len(Dimensions) THEN Whole(0)
    ELSE FAdd(FMul(breakdown[Dimensions[k]], Frac(WEIGHTS[Dimensions[k]], 100)),
              WeightedSum(breakdown, k + 1))

\* compute_rating: the composite clamped to [1, 10] and rounded to one
\* decimal, in tenths; the breakdown beside it
\* compute_rating without the clamp of line 35
compute_rating_unclamped(l, cfg) ==
    LET breakdown == Breakdown(l, cfg)
        composite == WeightedSum(breakdown, 1)
    IN  [ rating |-> RoundHalfEven(10 * composite[1], composite[2]),
          breakdown |-> breakdown, raised |-> "" ]

compute_rating(l, cfg) ==
    LET breakdown == Breakdown(l, cfg)
        composite == FMax(Whole(1), FMin(Whole(10), WeightedSum(breakdown, 1)))
    IN  IF breakdown.timing = ZeroDivisionError
        THEN [ rating |-> 0, breakdown |-> breakdown, raised |-> "ZeroDivisionError" ]
        ELSE [ rating |-> RoundHalfEven(10 * composite[1], composite[2]),
               breakdown |-> breakdown, raised |-> "" ]

-----------------------------------------------------------------------------
(* models/listing.py: to_sheet_row; sheets/sync.py *)

\* The row that to_sheet_row builds, by column name.  A falsy price is
\* written as "N/A" (here None), the furnished flag as Yes/No/"".
ToSheetRow(l) ==
    [ status |-> "New", rating |-> l.rating,
      price |-> IF Truthy(l.price_monthly) THEN l.price_monthly ELSE None,
      neighborhood |-> l.neighborhood, borough |-> l.borough,
      type |-> l.listing_type, apartment_details |-> l.apartment_details,
      available_from |-> l.available_from, available_to |-> l.available_to,
      furnished |-> IF l.is_furnished = <<TRUE>> THEN "Yes"
                    ELSE IF l.is_furnished = <<FALSE>> THEN "No" ELSE "",
      source |-> l.source, link |-> l.source_url,
      description |-> Prefix(l.description, 300),
      breakdown |-> l.rating_breakdown, contact |-> l.contact_info,
      scraped_at |-> l.scraped_at, id |-> l.id ]

\* get_existing_ids: column Q below the header; the empty set when the read raises
GetExistingIds(ws, ok) ==
    IF ok THEN {ws[k].id : k \in 1..Len(ws)} ELSE {}

\* get_seen_fingerprints: column A of _seen; the empty set when the read raises
GetSeenFingerprints(sws, ok) ==
    IF ok THEN {sws[k].fingerprint : k \in 1..Len(sws)} ELSE {}

\* Deduplicator.__init__: the seen set the engine starts with
DeduplicatorInit(has_sync, ws, sws, okSeen, okIds) ==
    IF has_sync
    THEN GetSeenFingerprints(sws, okSeen) \cup GetExistingIds(ws, okIds)
    ELSE {}

\* list.sort(key=rating, reverse=True) and worksheet.sort((2, "des")):
\* stable, highest rating first
RECURSIVE InsertByRating(_, _)
InsertByRating(x, sorted) ==
    IF sorted = << >> THEN <<x>>
    ELSE IF x.rating > Head(sorted).rating
         THEN <<x>> \o sorted
         ELSE <<Head(sorted)>> \o InsertByRating(x, Tail(sorted))

RECURSIVE SortByRating(_)
SortByRating(seq) ==
    IF seq = << >> THEN << >>
    ELSE InsertByRating(seq[Len(seq)], SortByRating(SubSeq(seq, 1, Len(seq) - 1)))

\* append_listings, line 127: the listings that get a row
ToAppend(ls, existing_ids) ==
    SortByRating(SelectSeq(ls, LAMBDA l : l.id # NoId /\ l.id \notin existing_ids))

Ids(seq) == {seq[k].id : k \in 1..Len(seq)}

SeenEntry(l) == [fingerprint |-> l.id, source |-> l.source]

\* append_listings: the main worksheet afterwards
AppendListingsRows(ws, ls, okIds, okSort) ==
    LET new == ToAppend(ls, GetExistingIds(ws, okIds))
        appended == ws \o [k \in 1..Len(new) |-> ToSheetRow(new[k])]
    IN  IF new = << >> THEN ws
        ELSE IF okSort THEN SortByRating(appended) ELSE appended

\* append_listings: the _seen worksheet afterwards (mark_seen_batch)
AppendListingsSeen(ws, sws, ls, okIds) ==
    LET new == ToAppend(ls, GetExistingIds(ws, okIds))
    IN  sws \o [k \in 1..Len(new) |-> SeenEntry(new[k])]

-----------------------------------------------------------------------------
(* dedup/deduplicator.py: deduplicate *)

\* line 42 without "listing.id or": the fingerprint is always recomputed
FingerprintRecomputed(l) == GenerateFingerprint(l)

\* fp = listing.id or listing.generate_fingerprint()
FingerprintOf(l) == IF l.id # NoId THEN l.id ELSE GenerateFingerprint(l)

SkipsIgnoringSeen(candidate, seen, batch_fps, accepted) ==
    \/ candidate.id \in batch_fps
    \/ IsFuzzyDuplicate(candidate, accepted)

\* the loop body without the fuzzy check of lines 54-55
SkipsExactOnly(candidate, seen, batch_fps, accepted) ==
    \/ candidate.id \in seen
    \/ candidate.id \in batch_fps


\* Whether the loop body skips the candidate (lines 46-55)
Skips(candidate, seen, batch_fps, accepted) ==
    \/ candidate.id \in seen
    \/ candidate.id \in batch_fps
    \/ IsFuzzyDuplicate(candidate, accepted)

\* new_listings.append(listing) (line 58)
AcceptFront(out, listing) == <<listing>> \o out

Accept(out, listing) == Append(out, listing)

\* One iteration of the loop of deduplicate (lines 41-58)
DedupStep ==
    /\ pc = "dedup"
    /\ idx <= Len(listings)
    /\ LET listing == [listings[idx] EXCEPT !.id = FingerprintOf(listings[idx])]
       IN  /\ listings' = [listings EXCEPT ![idx] = listing]
           /\ IF Skips(listing, seen_fingerprints, batch_fingerprints, new_listings)
              THEN UNCHANGED <<batch_fingerprints, new_listings, kept>>
              ELSE /\ batch_fingerprints' = batch_fingerprints \cup {listing.id}
                   /\ new_listings' = Accept(new_listings, listing)
                   /\ kept' = Append(kept, idx)
    /\ idx' = idx + 1
    /\ UNCHANGED <<pc, seen_fingerprints, harnessVars, pairVars, sheetVars, runVars>>

\* The loop is over: return new_listings (line 63)
DedupReturn ==
    /\ pc = "dedup"
    /\ idx > Len(listings)
    /\ pc' = "returned"
    /\ first_out' = IF round = 1 THEN new_listings ELSE first_out
    /\ UNCHANGED <<dedupVars, round, pairVars, sheetVars, runVars>>

\* The engine a second time on the same batch: append_listings persists what
\* the first call returned (sync.py 118-146) ...
HarnessPersist ==
    /\ pc = "returned"
    /\ round = 1
    /\ worksheet' = AppendListingsRows(worksheet, new_listings, TRUE, TRUE)
    /\ seen_ws' = AppendListingsSeen(worksheet, seen_ws, new_listings, TRUE)
    /\ pc' = "persisted"
    /\ UNCHANGED <<dedupVars, harnessVars, pairVars, runVars>>

\* ... and a new Deduplicator is seeded from the sheet (deduplicator.py 14-29)
\* and handed the same records.
HarnessReseed ==
    /\ pc = "persisted"
    /\ seen_fingerprints' = DeduplicatorInit(TRUE, worksheet, seen_ws, TRUE, TRUE)
    /\ batch_fingerprints' = {}
    /\ new_listings' = << >>
    /\ kept' = << >>
    /\ idx' = 1
    /\ round' = 2
    /\ pc' = "dedup"
    /\ UNCHANGED <<listings, first_out, pairVars, sheetVars, runVars>>

\* The same engine a second time on the same batch, nothing persisted in
\* between: deduplicate starts again with empty locals (lines 38-39); the
\* records carry the ids the first call gave them.  round 3 marks this call.
HarnessCallAgain ==
    /\ pc = "returned"
    /\ round = 1
    /\ batch_fingerprints' = {}
    /\ new_listings' = << >>
    /\ kept' = << >>
    /\ idx' = 1
    /\ round' = 3
    /\ pc' = "dedup"
    /\ UNCHANGED <<listings, seen_fingerprints, first_out, pairVars, sheetVars, runVars>>


\* _are_likely_duplicates on a pair, both ways round
Compare ==
    /\ pc = "pair"
    /\ verdict' = <<AreLikelyDuplicatesAt(pair[1], pair[2]),
                    AreLikelyDuplicatesAt(pair[2], pair[1])>>
    /\ pc' = "compared"
    /\ UNCHANGED <<dedupVars, harnessVars, pair, callVars, sheetVars, runVars>>

-----------------------------------------------------------------------------
(* main.py *)

\* run_scraper_safe: what the scraper returned, or [] when it raised
run_scraper_safe(outcome) == IF outcome.raised THEN << >> ELSE outcome.results

\* main.py, iso_patterns
IsoPatterns ==
    <<<<9, 19, 15>>,
      <<9, 14, 0, 19, 5, 1, 18, 3, 8, 0, 15, 6>>,
      <<12, 15, 15, 11, 9, 14, 7, 0, 6, 15, 18>>,
      <<19, 5, 5, 11, 9, 14, 7>>,
      <<9, 0, 14, 5, 5, 4>>,
      <<9, 27, 13, 0, 12, 15, 15, 11, 9, 14, 7>>,
      <<9, 13, 0, 12, 15, 15, 11, 9, 14, 7>>,
      <<1, 14, 25, 15, 14, 5, 0, 11, 14, 15, 23>>>>

\* filter_iso_posts: whether the post is kept
KeepsPost(l) ==
    LET text == Lower(IF l.raw_text # << >> THEN l.raw_text ELSE l.description)
        first_100 == Prefix(text, 100)
    IN  ~\E k \in 1..Len(IsoPatterns) : Contains(first_100, IsoPatterns[k])

filter_iso_posts(ls) == SelectSeq(ls, KeepsPost)

\* validate_listing without the price sanity check of lines 82-84
validate_listing_any_price(l) ==
    /\ l.available_from # None => l.available_from[1][1] \in {2025, 2026}
    /\ l.available_to # None => l.available_to[1][1] \in {2026, 2027}
    /\ ~(l.source_url = "" /\ l.description = << >> /\ l.raw_text = << >>)


validate_listing(l) ==
    /\ l.price_monthly # None =>
          ~(l.price_monthly[1] < 100 \/ l.price_monthly[1] > 15000)
    /\ l.available_from # None => l.available_from[1][1] \in {2025, 2026}
    /\ l.available_to # None => l.available_to[1][1] \in {2026, 2027}
    /\ ~(l.source_url = "" /\ l.description = << >> /\ l.raw_text = << >>)

\* Phase 6: the listing with its rating and breakdown set
Scored(l, cfg) ==
    [l EXCEPT !.rating = compute_rating(l, cfg).rating,
              !.rating_breakdown = compute_rating(l, cfg).breakdown]

\* Phase 1 without the try/except of run_scraper_safe: the first scraper that
\* raises ends the loop, and the run goes on with nothing
StartRunUnisolated(dry, spreadsheet_id, craigslist, facebook) ==
    /\ pc = "idle"
    /\ runs < MaxRuns
    /\ runs' = runs + 1
    /\ dry_run' = dry
    /\ settings' = Settings(spreadsheet_id)
    /\ sheet_sync' = FALSE
    /\ scrapes' = <<craigslist, facebook>>
    /\ listings' = IF craigslist.raised \/ facebook.raised THEN << >>
                   ELSE craigslist.results \o facebook.results
    /\ idx' = 1
    /\ seen_fingerprints' = {}
    /\ batch_fingerprints' = {}
    /\ new_listings' = << >>
    /\ kept' = << >>
    /\ pc' = "scraped"
    /\ UNCHANGED <<harnessVars, pairVars, sheetVars, written>>


\* main, lines 115-148: the settings, the scrapers to run and Phase 1.  The
\* run is given its arguments, its environment and what each scraper does.
StartRun(dry, spreadsheet_id, craigslist, facebook) ==
    /\ pc = "idle"
    /\ runs < MaxRuns
    /\ runs' = runs + 1
    /\ dry_run' = dry
    /\ settings' = Settings(spreadsheet_id)
    /\ sheet_sync' = FALSE
    /\ scrapes' = <<craigslist, facebook>>
    /\ listings' = run_scraper_safe(craigslist) \o run_scraper_safe(facebook)
    /\ idx' = 1
    /\ seen_fingerprints' = {}
    /\ batch_fingerprints' = {}
    /\ new_listings' = << >>
    /\ kept' = << >>
    /\ pc' = "scraped"
    /\ UNCHANGED <<harnessVars, pairVars, sheetVars, written>>

\* Phase 2 (line 151)
FilterIso ==
    /\ pc = "scraped"
    /\ listings' = filter_iso_posts(listings)
    /\ pc' = "filtered"
    /\ UNCHANGED <<idx, seen_fingerprints, batch_fingerprints, new_listings, kept,
                   harnessVars, pairVars, sheetVars, runVars>>

\* Phase 3 (line 155)
Validate ==
    /\ pc = "filtered"
    /\ listings' = SelectSeq(listings, validate_listing)
    /\ pc' = "validated"
    /\ UNCHANGED <<idx, seen_fingerprints, batch_fingerprints, new_listings, kept,
                   harnessVars, pairVars, sheetVars, runVars>>

\* Phase 4 (lines 159-160)
Fingerprint ==
    /\ pc = "validated"
    /\ listings' = [k \in 1..Len(listings) |->
                       [listings[k] EXCEPT !.id = GenerateFingerprint(listings[k])]]
    /\ pc' = "fingerprinted"
    /\ UNCHANGED <<idx, seen_fingerprints, batch_fingerprints, new_listings, kept,
                   harnessVars, pairVars, sheetVars, runVars>>

OpensSheetIgnoringDryRun(dry, spreadsheet_id) == spreadsheet_id # ""

\* Phase 5, line 163: whether a SheetSync is opened
OpensSheet(dry, spreadsheet_id) == ~dry /\ spreadsheet_id # ""

\* Phase 5 (lines 163-170): the Deduplicator, with or without a SheetSync.
\* Each of the two reads of the sheet may raise, which the code answers with
\* the empty set.
Construct(okSeen, okIds) ==
    /\ pc = "fingerprinted"
    /\ sheet_sync' = OpensSheet(dry_run, settings.spreadsheet_id)
    /\ seen_fingerprints' =
          DeduplicatorInit(sheet_sync', worksheet, seen_ws, okSeen, okIds)
    /\ pc' = "dedup"
    /\ UNCHANGED <<listings, idx, batch_fingerprints, new_listings, kept,
                   harnessVars, pairVars, sheetVars, dry_run, settings, runs, written,
                   scrapes>>

\* Phase 6 and the sort (lines 176-182)
Score ==
    /\ pc = "returned"
    /\ new_listings' = SortByRating([k \in 1..Len(new_listings) |->
                                         Scored(new_listings[k], settings)])
    /\ pc' = "scored"
    /\ UNCHANGED <<listings, idx, seen_fingerprints, batch_fingerprints, kept,
                   harnessVars, pairVars, sheetVars, runVars>>

\* Phase 7 (lines 185-198).  append_listings reads the ids (the read may
\* raise), appends the rows, marks them seen (an exception there ends the
\* run with the rows written) and sorts the sheet (a failure is logged).
Write(okIds, outcome) ==
    /\ pc = "scored"
    /\ IF dry_run \/ ~sheet_sync
       THEN UNCHANGED <<sheetVars, written>>
       ELSE /\ written' = written \cup Ids(ToAppend(new_listings, GetExistingIds(worksheet, okIds)))
            /\ worksheet' = AppendListingsRows(worksheet, new_listings, okIds, outcome = "ok")
            /\ seen_ws' = IF outcome = "mark_seen_raised" THEN seen_ws
                          ELSE AppendListingsSeen(worksheet, seen_ws, new_listings, okIds)
    /\ pc' = "idle"
    /\ UNCHANGED <<dedupVars, harnessVars, pairVars, dry_run, sheet_sync, settings, runs,
                   scrapes>>

-----------------------------------------------------------------------------
(* Inputs *)

TxtA == <<1, 2, 0, 3, 4>>              \* "ab cd"
TxtA2 == <<3, 4, 0, 1, 2, 0, 5>>       \* "cd ab e"
TxtA3 == <<101, 102, 0, 0, 3, 4>>      \* "AB  cd"
TxtZ == <<24, 25, 26>>                 \* "xyz"
SoHo == <<119, 15, 108, 15>>           \* "SoHo"
Soho == <<19, 15, 8, 15>>              \* "soho"
Chelsea == <<103, 8, 5, 12, 19, 5, 1>> \* "Chelsea"

Mk(src, url, text, desc, price, nbhd, type, id) ==
    [NewListing(src) EXCEPT !.source_url = url, !.raw_text = text,
        !.description = desc, !.price_monthly = price, !.neighborhood = nbhd,
        !.listing_type = type, !.id = id]

\* The records deduplicate is tried on
L1 == Mk(CRAIGSLIST, "u1", << >>, TxtA, Some(1800), SoHo, STUDIO, NoId)
L2 == Mk(LEASEBREAK, "u2", TxtA2, << >>, Some(1850), Soho, STUDIO, NoId)
L3 == Mk(CRAIGSLIST, "u3", << >>, TxtA2, Some(1900), SoHo, STUDIO, NoId)
L4 == Mk(FACEBOOK, "u1", TxtA, << >>, Some(1800), SoHo, STUDIO, NoId)
L5 == Mk(FACEBOOK, "u1", TxtZ, << >>, None, Chelsea, UNKNOWN_TYPE, NoId)
L6 == Mk(FACEBOOK, "", TxtA3, TxtZ, Some(1800), Soho, STUDIO, NoId)
L7 == Mk(CRAIGSLIST, "u4", TxtZ, << >>, None, << >>, UNKNOWN_TYPE, UpstreamId("x"))
L8 == Mk(CRAIGSLIST, "u1", << >>, TxtZ, Some(2500), Chelsea, ONE_BEDROOM, NoId)
L9 == NewListing(CRAIGSLIST)
L10 == Mk(LEASEBREAK, "u4", TxtA, << >>, Some(0), << >>, UNKNOWN_TYPE, NoId)

DedupPool == {L1, L2, L3, L4, L5, L6, L7, L8, L9, L10}

SeqsUpTo(S, n) == UNION {[1..k -> S] : k \in 0..n}

Range(seq) == {seq[k] : k \in 1..Len(seq)}

\* The seen sets an engine is seeded with: nothing, or the fingerprint of a
\* record of the batch
Seeds(batch) == {{}} \cup {{FingerprintOf(l)} : l \in Range(batch)}

SeenRows(S) ==
    LET RECURSIVE Rows(_)
        Rows(T) == IF T = {} THEN << >>
                   ELSE LET f == CHOOSE f \in T : TRUE
                        IN  <<[fingerprint |-> f, source |-> CRAIGSLIST]>> \o Rows(T \ {f})
    IN  Rows(S)

IsoText == <<9, 19, 15, 0, 1, 2>>      \* "iso ab"

\* What the scrapers of the pipeline return
P1 == [Mk(CRAIGSLIST, "u1", << >>, TxtA, Some(1800), SoHo, STUDIO, NoId)
          EXCEPT !.borough = "Manhattan", !.is_furnished = Some(TRUE),
                 !.available_from = Some(<<2026, 7, 1>>),
                 !.available_to = Some(<<2026, 8, 31>>)]
P2 == Mk(FACEBOOK, "", TxtA2, << >>, Some(1850), Soho, STUDIO, NoId)
P3 == Mk(FACEBOOK, "", IsoText, << >>, Some(1500), Chelsea, ONE_BEDROOM, NoId)
P4 == Mk(CRAIGSLIST, "u2", TxtZ, << >>, Some(50), Chelsea, ONE_BEDROOM, NoId)

ScraperResults(src) ==
    SeqsUpTo({l \in {P1, P2, P3, P4} : l.source = src}, MaxPerSource)

ScraperOutcomes(src) ==
    {[raised |-> TRUE, results |-> << >>]}
        \cup {[raised |-> FALSE, results |-> r] : r \in ScraperResults(src)}

\* A row that was in the sheet before the _seen worksheet existed
LegacyRow == ToSheetRow(Scored([P1 EXCEPT !.id = GenerateFingerprint(P1)], Settings("sheet")))

\* The pairs _are_likely_duplicates is tried on
PairListings ==
    {Mk(CRAIGSLIST, "", text, desc, price, nbhd, type, NoId) :
        text \in {<< >>, TxtA2, TxtZ}, desc \in {<< >>, TxtA},
        price \in {None, Some(0), Some(30), Some(1800), Some(1850), Some(1851)},
        nbhd \in {<< >>, SoHo, Soho, Chelsea}, type \in {STUDIO, UNKNOWN_TYPE}}

NoPair == <<NewListing(CRAIGSLIST), NewListing(CRAIGSLIST)>>

\* parse_date has not been called
NotCalled == [called |-> FALSE, raised |-> FALSE, value |-> None]

-----------------------------------------------------------------------------
(* Specifications *)

\* The pipeline: runs of main, one after the other, on one spreadsheet
Init ==
    /\ pc = "idle"
    /\ worksheet \in {<< >>, <<LegacyRow>>}
    /\ seen_ws = << >>
    /\ runs = 0
    /\ written = {}
    /\ scrapes = << >>
    /\ dry_run = FALSE
    /\ sheet_sync = FALSE
    /\ settings = Settings("")
    /\ listings = << >>
    /\ idx = 1
    /\ seen_fingerprints = {}
    /\ batch_fingerprints = {}
    /\ new_listings = << >>
    /\ kept = << >>
    /\ round = 0
    /\ first_out = << >>
    /\ pair = NoPair
    /\ verdict = << >>
    /\ fps = << >>
    /\ ratings = << >>
    /\ raw = << >>
    /\ parsed = NotCalled

Next ==
    \/ \E dry \in BOOLEAN, spreadsheet_id \in {"", "sheet"},
          craigslist \in ScraperOutcomes(CRAIGSLIST),
          facebook \in ScraperOutcomes(FACEBOOK) :
              StartRun(dry, spreadsheet_id, craigslist, facebook)
    \/ FilterIso
    \/ Validate
    \/ Fingerprint
    \/ \E okSeen, okIds \in BOOLEAN : Construct(okSeen, okIds)
    \/ DedupStep
    \/ DedupReturn
    \/ Score
    \/ \E okIds \in BOOLEAN, outcome \in {"ok", "sort_failed", "mark_seen_raised"} :
          Write(okIds, outcome)

Spec == Init /\ [][Next]_vars

\* deduplicate on every batch and seeded seen set, then once more after persisting
InitDedup ==
    /\ pc = "dedup"
    /\ listings \in SeqsUpTo(DedupPool, MaxBatch)
    /\ seen_ws \in {SeenRows(S) : S \in Seeds(listings)}
    /\ worksheet = << >>
    /\ seen_fingerprints = DeduplicatorInit(TRUE, worksheet, seen_ws, TRUE, TRUE)
    /\ idx = 1
    /\ batch_fingerprints = {}
    /\ new_listings = << >>
    /\ kept = << >>
    /\ round = 1
    /\ first_out = << >>
    /\ pair = NoPair
    /\ verdict = << >>
    /\ fps = << >>
    /\ ratings = << >>
    /\ raw = << >>
    /\ parsed = NotCalled
    /\ dry_run = FALSE
    /\ sheet_sync = TRUE
    /\ settings = Settings("sheet")
    /\ runs = 0
    /\ written = {}
    /\ scrapes = << >>

NextDedup == DedupStep \/ DedupReturn \/ HarnessPersist \/ HarnessReseed \/ HarnessCallAgain

SpecDedup == InitDedup /\ [][NextDedup]_vars

\* _are_likely_duplicates on every pair
InitPair ==
    /\ pc = "pair"
    /\ pair \in PairListings \X PairListings
    /\ verdict = << >>
    /\ fps = << >>
    /\ ratings = << >>
    /\ raw = << >>
    /\ parsed = NotCalled
    /\ listings = << >>
    /\ seen_fingerprints = {}
    /\ idx = 1
    /\ batch_fingerprints = {}
    /\ new_listings = << >>
    /\ kept = << >>
    /\ round = 1
    /\ first_out = << >>
    /\ worksheet = << >>
    /\ seen_ws = << >>
    /\ dry_run = FALSE
    /\ sheet_sync = FALSE
    /\ settings = Settings("")
    /\ runs = 0
    /\ written = {}
    /\ scrapes = << >>

NextPair == Compare

SpecPair == InitPair /\ [][NextPair]_vars

-----------------------------------------------------------------------------
(* generate_fingerprint called on two records, more than once *)

\* how often a pure function is called on the same arguments
MaxCalls == 2

\* one call of generate_fingerprint on each record of the pair; the records
\* are only read
GenerateFingerprintCall ==
    /\ pc = "fingerprint"
    /\ Len(fps) < MaxCalls
    /\ fps' = Append(fps, <<GenerateFingerprint(pair[1]), GenerateFingerprint(pair[2])>>)
    /\ pc' = IF Len(fps) + 1 = MaxCalls THEN "fingerprinted" ELSE pc
    /\ UNCHANGED <<dedupVars, harnessVars, pair, verdict, ratings, raw, parsed,
                   sheetVars, runVars>>

\* records that differ in what the fingerprint reads
FingerprintBase ==
    {Mk(src, url, text, << >>, price, nbhd, STUDIO, NoId) :
        src \in {CRAIGSLIST, FACEBOOK}, url \in {"", "u1"},
        text \in {TxtA, TxtA3}, price \in {None, Some(1800)}, nbhd \in {SoHo, Soho}}

\* and in what it does not read
FingerprintVariants ==
    {[l EXCEPT !.scraped_at = at, !.rating = rating, !.description = desc,
               !.images = images, !.contact_info = contact] :
        l \in FingerprintBase, at \in {0, 1}, rating \in {0, 86},
        desc \in {<< >>, TxtZ}, images \in {<< >>, <<"img">>},
        contact \in {<< >>, TxtZ}}

InitFingerprint ==
    /\ pc = "fingerprint"
    /\ pair \in FingerprintBase \X FingerprintVariants
    /\ verdict = << >>
    /\ fps = << >>
    /\ ratings = << >>
    /\ raw = << >>
    /\ parsed = NotCalled
    /\ listings = << >>
    /\ seen_fingerprints = {}
    /\ idx = 1
    /\ batch_fingerprints = {}
    /\ new_listings = << >>
    /\ kept = << >>
    /\ round = 1
    /\ first_out = << >>
    /\ worksheet = << >>
    /\ seen_ws = << >>
    /\ dry_run = FALSE
    /\ sheet_sync = FALSE
    /\ settings = Settings("")
    /\ runs = 0
    /\ written = {}
    /\ scrapes = << >>

NextFingerprint == GenerateFingerprintCall

SpecFingerprint == InitFingerprint /\ [][NextFingerprint]_vars


-----------------------------------------------------------------------------
(* compute_rating called on two records under one configuration, more than once *)

\* compute_rating storing its result in the record it rates
ComputeRatingInPlace ==
    /\ pc = "rate"
    /\ Len(ratings) < MaxCalls
    /\ ratings' = Append(ratings, <<compute_rating(pair[1], settings),
                                    compute_rating(pair[2], settings)>>)
    /\ pair' = <<Scored(pair[1], settings), Scored(pair[2], settings)>>
    /\ pc' = IF Len(ratings) + 1 = MaxCalls THEN "rated" ELSE pc
    /\ UNCHANGED <<dedupVars, harnessVars, verdict, fps, raw, parsed,
                   sheetVars, runVars>>

\* one call of compute_rating on each record of the pair; the records and
\* the settings are only read
ComputeRatingCall ==
    /\ pc = "rate"
    /\ Len(ratings) < MaxCalls
    /\ ratings' = Append(ratings, <<compute_rating(pair[1], settings),
                                    compute_rating(pair[2], settings)>>)
    /\ pc' = IF Len(ratings) + 1 = MaxCalls THEN "rated" ELSE pc
    /\ UNCHANGED <<dedupVars, harnessVars, pair, verdict, fps, raw, parsed,
                   sheetVars, runVars>>

\* target windows <<start, minimum-acceptable end, ideal end>>: the defaults,
\* a window of zero days, a window whose ends differ from the defaults, and
\* a window that ends before it starts
TargetWindows ==
    { <<<<2026, 7, 1>>, <<2026, 8, 31>>, <<2026, 9, 30>>>>,
      <<<<2026, 7, 1>>, <<2026, 7, 1>>, <<2026, 7, 1>>>>,
      <<<<2026, 7, 1>>, <<2026, 8, 15>>, <<2026, 10, 31>>>>,
      <<<<2026, 9, 30>>, <<2026, 9, 30>>, <<2026, 7, 1>>>> }

ScoreSettings ==
    {[Settings("") EXCEPT !.target_start_date = w[1], !.target_end_date_min = w[2],
                          !.target_end_date_ideal = w[3]] : w \in TargetWindows}

Midtown == <<113, 9, 4, 20, 15, 23, 14>>                      \* "Midtown"
MidtownEastLower == <<13, 9, 4, 20, 15, 23, 14, 0, 5, 1, 19, 20>>  \* "midtown east"
East == <<105, 1, 19, 20>>                                    \* "East"
Village == <<122, 9, 12, 12, 1, 7, 5>>                        \* "Village"
SohoNyc == <<19, 15, 8, 15, 0, 14, 25, 3>>                    \* "soho nyc"
Astoria == <<101, 19, 20, 15, 18, 9, 1>>                      \* "Astoria"
Blank == <<0>>                                                \* " "

PriceFamily ==
    {[NewListing(CRAIGSLIST) EXCEPT !.price_monthly = p] :
        p \in {None} \cup {Some(v) : v \in {-100, 0, 1200, 1201, 1500, 1501, 1700, 1701,
                                            1850, 1851, 1925, 2000, 2001, 2200, 2201, 5000}}}

LocationFamily ==
    {[NewListing(CRAIGSLIST) EXCEPT !.neighborhood = n, !.borough = b] :
        n \in {<< >>, Midtown, MidtownEastLower, East, Village, SohoNyc, Astoria, Blank, TxtZ},
        b \in {"Manhattan", "Brooklyn", "Staten Island", "Unknown"}}

TimingFamily ==
    {[NewListing(CRAIGSLIST) EXCEPT !.available_from = f, !.available_to = t] :
        f \in {None} \cup {Some(d) : d \in {<<2026, 6, 1>>, <<2026, 7, 1>>, <<2026, 7, 8>>,
                                            <<2026, 7, 9>>, <<2026, 7, 20>>, <<2026, 8, 15>>,
                                            <<2026, 10, 5>>}},
        t \in {None} \cup {Some(d) : d \in {<<2026, 6, 15>>, <<2026, 7, 1>>, <<2026, 8, 30>>,
                                            <<2026, 8, 31>>, <<2026, 9, 29>>, <<2026, 9, 30>>,
                                            <<2026, 10, 31>>}}}

BonusFamily ==
    {[NewListing(src) EXCEPT !.is_furnished = f, !.images = i, !.address = a,
                             !.contact_info = c] :
        src \in {CRAIGSLIST, LEASEBREAK, FACEBOOK}, f \in {None, Some(TRUE), Some(FALSE)},
        i \in {<< >>, <<"img">>}, a \in {<< >>, TxtA}, c \in {<< >>, TxtZ}}

\* the record every dimension scores lowest, and the one every dimension
\* scores highest (under the default window)
Worst ==
    [NewListing(CRAIGSLIST) EXCEPT !.price_monthly = Some(5000), !.borough = "Staten Island",
                                   !.available_to = Some(<<2026, 6, 15>>)]
Best ==
    [NewListing(LEASEBREAK) EXCEPT !.price_monthly = Some(1000), !.neighborhood = MidtownEastLower,
        !.borough = "Manhattan", !.listing_type = STUDIO, !.is_furnished = Some(TRUE),
        !.images = <<"img">>, !.address = TxtA, !.contact_info = TxtZ,
        !.available_from = Some(<<2026, 7, 1>>), !.available_to = Some(<<2026, 9, 30>>)]

\* pairs that differ in price and pairs that differ in dates; for the other
\* dimensions each record beside itself
ScorePairs ==
    (PriceFamily \X PriceFamily) \cup (TimingFamily \X TimingFamily)
        \cup {<<l, l>> : l \in LocationFamily \cup BonusFamily \cup {Worst, Best}}

InitScore ==
    /\ pc = "rate"
    /\ pair \in ScorePairs
    /\ settings \in ScoreSettings
    /\ verdict = << >>
    /\ fps = << >>
    /\ ratings = << >>
    /\ raw = << >>
    /\ parsed = NotCalled
    /\ listings = << >>
    /\ seen_fingerprints = {}
    /\ idx = 1
    /\ batch_fingerprints = {}
    /\ new_listings = << >>
    /\ kept = << >>
    /\ round = 1
    /\ first_out = << >>
    /\ worksheet = << >>
    /\ seen_ws = << >>
    /\ dry_run = FALSE
    /\ sheet_sync = FALSE
    /\ runs = 0
    /\ written = {}
    /\ scrapes = << >>

NextScore == ComputeRatingCall

SpecScore == InitScore /\ [][NextScore]_vars


-----------------------------------------------------------------------------
(* parsers/date_parser.py: parse_date *)

IsDigit(c) == c \in 30..39      \* \d
IsLetter(c) == c \in 1..26      \* [a-z]

\* the length of the run of digits, letters or spaces that starts at position k
RECURSIVE DigitRun(_, _)
DigitRun(s, k) == IF k <= Len(s) /\ IsDigit(s[k]) THEN 1 + DigitRun(s, k + 1) ELSE 0

RECURSIVE LetterRun(_, _)
LetterRun(s, k) == IF k <= Len(s) /\ IsLetter(s[k]) THEN 1 + LetterRun(s, k + 1) ELSE 0

RECURSIVE SpaceRun(_, _)
SpaceRun(s, k) == IF k <= Len(s) /\ IsSpace(s[k]) THEN 1 + SpaceRun(s, k + 1) ELSE 0

\* int() of the n digits from position k
RECURSIVE ToInt(_, _, _)
ToInt(s, k, n) == IF n = 0 THEN 0 ELSE 10 * ToInt(s, k, n - 1) + (s[k + n - 1] - 30)

\* the pattern t stands at position k of s
At(s, k, t) == k + Len(t) - 1 <= Len(s) /\ \A j \in 1..Len(t) : s[k + j - 1] = t[j]

AtMost(n, m) == IF n <= m THEN n ELSE m

\* str.strip()
Strip(s) ==
    LET inked == {k \in 1..Len(s) : ~IsSpace(s[k])}
    IN  IF inked = {} THEN << >>
        ELSE SubSeq(s, CHOOSE k \in inked : \A j \in inked : k <= j,
                       CHOOSE k \in inked : \A j \in inked : j <= k)

\* "st", "nd", "rd", "th"
OrdinalSuffixes == {<<19, 20>>, <<14, 4>>, <<18, 4>>, <<20, 8>>}

\* re.sub(r"(\d+)(st|nd|rd|th)", r"\1", text): a suffix right after a digit goes
RECURSIVE RemoveOrdinals(_, _)
RemoveOrdinals(s, k) ==
    IF k > Len(s) THEN << >>
    ELSE IF IsDigit(s[k]) /\ \E t \in OrdinalSuffixes : At(s, k + 1, t)
         THEN <<s[k]>> \o RemoveOrdinals(s, k + 3)
         ELSE <<s[k]>> \o RemoveOrdinals(s, k + 1)

\* MONTH_MAP.get(name): the number of the month, 0 for None
MONTH_MAP(name) ==
    CASE name \in {<<10, 1, 14>>, <<10, 1, 14, 21, 1, 18, 25>>} -> 1           \* jan, january
      [] name \in {<<6, 5, 2>>, <<6, 5, 2, 18, 21, 1, 18, 25>>} -> 2           \* feb, february
      [] name \in {<<13, 1, 18>>, <<13, 1, 18, 3, 8>>} -> 3                    \* mar, march
      [] name \in {<<1, 16, 18>>, <<1, 16, 18, 9, 12>>} -> 4                   \* apr, april
      [] name = <<13, 1, 25>> -> 5                                            \* may
      [] name \in {<<10, 21, 14>>, <<10, 21, 14, 5>>} -> 6                     \* jun, june
      [] name \in {<<10, 21, 12>>, <<10, 21, 12, 25>>} -> 7                    \* jul, july
      [] name \in {<<1, 21, 7>>, <<1, 21, 7, 21, 19, 20>>} -> 8                \* aug, august
      [] name \in {<<19, 5, 16>>, <<19, 5, 16, 20>>,
                   <<19, 5, 16, 20, 5, 13, 2, 5, 18>>} -> 9                    \* sep, sept, september
      [] name \in {<<15, 3, 20>>, <<15, 3, 20, 15, 2, 5, 18>>} -> 10           \* oct, october
      [] name \in {<<14, 15, 22>>, <<14, 15, 22, 5, 13, 2, 5, 18>>} -> 11      \* nov, november
      [] name \in {<<4, 5, 3>>, <<4, 5, 3, 5, 13, 2, 5, 18>>} -> 12            \* dec, december
      [] OTHER -> 0

\* how a call ends: with a value (a date or None) or with the ValueError raised
ReturnsValue(v) == [called |-> TRUE, raised |-> FALSE, value |-> v]
RaisesValueError == [called |-> TRUE, raised |-> TRUE, value |-> None]

\* datetime.date(year, month, day)
Date(year, month, day) ==
    IF /\ year \in 1..9999
       /\ month \in 1..12
       /\ day >= 1 /\ day <= DaysInMonth(year, month)
    THEN ReturnsValue(Some(<<year, month, day>>))
    ELSE RaisesValueError

\* try: return date(...)  except ValueError: return None
TryDate(year, month, day) ==
    IF Date(year, month, day).raised THEN ReturnsValue(None) ELSE Date(year, month, day)


\* re.match(r"(\d{4})-(\d{1,2})-(\d{1,2})", text): the groups, << >> for no match
IsoMatch(text) ==
    LET r2 == DigitRun(text, 6)
        r3 == DigitRun(text, 7 + r2)
    IN  IF /\ DigitRun(text, 1) = 4 /\ At(text, 5, <<28>>)
           /\ r2 \in {1, 2} /\ At(text, 6 + r2, <<28>>)
           /\ r3 >= 1
        THEN <<ToInt(text, 1, 4), ToInt(text, 6, r2), ToInt(text, 7 + r2, AtMost(r3, 2))>>
        ELSE << >>

\* re.match(r"(\d{1,2})/(\d{1,2})(?:/(\d{2,4}))?", text): month, day and the
\* year group (<< >> when it took no part), << >> for no match
UsMatch(text) ==
    LET r1 == DigitRun(text, 1)
        r2 == AtMost(DigitRun(text, r1 + 2), 2)
        p == r1 + 2 + r2
        r3 == AtMost(DigitRun(text, p + 1), 4)
        year_str == IF At(text, p, <<29>>) /\ r3 >= 2 THEN <<ToInt(text, p + 1, r3)>> ELSE << >>
    IN  IF r1 \in {1, 2} /\ At(text, r1 + 1, <<29>>) /\ r2 >= 1
        THEN <<ToInt(text, 1, r1), ToInt(text, r1 + 2, r2), year_str>>
        ELSE << >>

\* re.match(r"([a-z]+)\s+(\d{1,2})", text): the month name and the day
NameMatch(text) ==
    LET l == LetterRun(text, 1)
        sp == SpaceRun(text, l + 1)
        r == AtMost(DigitRun(text, l + sp + 1), 2)
    IN  IF l >= 1 /\ sp >= 1 /\ r >= 1
        THEN <<SubSeq(text, 1, l), ToInt(text, l + sp + 1, r)>>
        ELSE << >>

\* re.match(r"(\d{1,2})\s+(?:of\s+)?([a-z]+)", text): the day and the month name
DayNameMatch(text) ==
    LET r1 == DigitRun(text, 1)
        sp == SpaceRun(text, r1 + 1)
        p == r1 + sp + 1
        q == p + 2 + SpaceRun(text, p + 2)
        with_of == At(text, p, <<15, 6>>) /\ SpaceRun(text, p + 2) >= 1
                       /\ LetterRun(text, q) >= 1
    IN  IF r1 \in {1, 2} /\ sp >= 1 /\ LetterRun(text, p) >= 1
        THEN IF with_of
             THEN <<ToInt(text, 1, r1), SubSeq(text, q, q + LetterRun(text, q) - 1)>>
             ELSE <<ToInt(text, 1, r1), SubSeq(text, p, p + LetterRun(text, p) - 1)>>
        ELSE << >>

\* parse_date(raw, default_year)
parse_date(raw_in, default_year) ==
    LET text == RemoveOrdinals(Lower(Strip(raw_in)), 1)
        iso == IsoMatch(text)
        us == UsMatch(text)
        name == NameMatch(text)
        day_name == DayNameMatch(text)
        year == IF us[3] = << >> THEN default_year
                ELSE IF us[3][1] < 100 THEN us[3][1] + 2000 ELSE us[3][1]
    IN  IF raw_in = << >> THEN ReturnsValue(None)
        ELSE IF iso # << >> THEN Date(iso[1], iso[2], iso[3])
        ELSE IF us # << >> /\ us[1] \in 1..12 /\ us[2] \in 1..31
             THEN TryDate(year, us[1], us[2])
        ELSE IF name # << >> /\ MONTH_MAP(name[1]) # 0 /\ name[2] \in 1..31
             THEN TryDate(default_year, MONTH_MAP(name[1]), name[2])
        ELSE IF day_name # << >> /\ MONTH_MAP(day_name[2]) # 0 /\ day_name[1] \in 1..31
             THEN TryDate(default_year, MONTH_MAP(day_name[2]), day_name[1])
        ELSE ReturnsValue(None)

\* parse_date(raw), the default year left at its default
DefaultYear == 2026

ParseDateCall ==
    /\ pc = "parse"
    /\ parsed' = parse_date(raw, DefaultYear)
    /\ pc' = "parsed"
    /\ UNCHANGED <<dedupVars, harnessVars, pair, verdict, fps, ratings, raw,
                   sheetVars, runVars>>


\* the decimal digits of n, in two places, in as many as it needs, and in four
TwoDigits(n) == <<30 + ((n \div 10) % 10), 30 + (n % 10)>>
Plain(n) == IF n < 10 THEN <<30 + n>> ELSE TwoDigits(n)
FourDigits(n) == TwoDigits(n \div 100) \o TwoDigits(n % 100)

\* months and days, real ones and others
Months == {0, 1, 2, 4, 12, 13}
Days == {0, 1, 28, 29, 30, 31, 32}
MonthNames ==
    { <<6, 5, 2>>,                          \* feb
      <<106, 5, 2, 18, 21, 1, 18, 25>>,     \* February
      <<1, 16, 18>>,                        \* apr
      <<19, 5, 16, 20>>,                    \* sept
      <<104, 5, 3>>,                        \* Dec
      <<6, 15, 15>> }                       \* foo

\* "2026-02-30", "2026-2-30"
IsoTexts ==
    {FourDigits(y) \o <<28>> \o m \o <<28>> \o TwoDigits(d) :
        y \in {0, 2024, 2026}, m \in {TwoDigits(k) : k \in Months} \cup {Plain(k) : k \in Months},
        d \in Days}

\* "2/30", "02/30", "2/30/26", "2/30/2024"
UsTexts ==
    {m \o <<29>> \o Plain(d) \o y :
        m \in {TwoDigits(k) : k \in Months} \cup {Plain(k) : k \in Months}, d \in Days,
        y \in {<< >>, <<29>> \o TwoDigits(24), <<29>> \o FourDigits(2026)}}

\* "feb 30", "feb 30th", "30 feb", "30th of feb"
NameTexts ==
    {n \o <<0>> \o Plain(d) \o suffix : n \in MonthNames, d \in Days,
                                        suffix \in {<< >>, <<20, 8>>}}
        \cup {Plain(d) \o suffix \o <<0>> \o of \o n : n \in MonthNames, d \in Days,
                  suffix \in {<< >>, <<20, 8>>}, of \in {<< >>, <<15, 6, 0>>}}

\* "", "   ", "tbd", " 7/1 "
OtherTexts == {<< >>, <<0, 0, 0>>, <<20, 2, 4>>, <<0, 37, 29, 31, 0>>}

DateTexts == IsoTexts \cup UsTexts \cup NameTexts \cup OtherTexts

InitDate ==
    /\ pc = "parse"
    /\ raw \in DateTexts
    /\ parsed = NotCalled
    /\ pair = NoPair
    /\ verdict = << >>
    /\ fps = << >>
    /\ ratings = << >>
    /\ listings = << >>
    /\ seen_fingerprints = {}
    /\ idx = 1
    /\ batch_fingerprints = {}
    /\ new_listings = << >>
    /\ kept = << >>
    /\ round = 1
    /\ first_out = << >>
    /\ worksheet = << >>
    /\ seen_ws = << >>
    /\ dry_run = FALSE
    /\ sheet_sync = FALSE
    /\ settings = Settings("")
    /\ runs = 0
    /\ written = {}
    /\ scrapes = << >>

NextDate == ParseDateCall

SpecDate == InitDate /\ [][NextDate]_vars


-----------------------------------------------------------------------------
(* parsers/price_parser.py *)

\* further characters: "$" 40, "," 41, "." 42
IsDollar(c) == c = 40
IsComma(c) == c = 41
IsDot(c) == c = 42

\* text.replace(",", "").replace("$", "")
WithoutNoise(s) == LET Keeps(c) == ~IsComma(c) /\ ~IsDollar(c) IN SelectSeq(s, Keeps)

\* 10 ** n
RECURSIVE Pow10(_)
Pow10(n) == IF n = 0 THEN 1 ELSE 10 * Pow10(n - 1)

\* \d+\.?\d* standing at position k: the lengths of its whole part and of its
\* fraction, and whether the dot is there; whole = 0 when it does not match
NumberAt(s, k) ==
    LET whole == DigitRun(s, k)
        dot == whole > 0 /\ k + whole <= Len(s) /\ IsDot(s[k + whole])
        fraction == IF dot THEN DigitRun(s, k + whole + 1) ELSE 0
    IN  [ whole |-> whole, dot |-> dot, fraction |-> fraction,
          len |-> whole + (IF dot THEN 1 + fraction ELSE 0) ]

\* float() of the number standing at position k, as an exact fraction
ToFloat(s, k) ==
    LET n == NumberAt(s, k)
    IN  IF n.fraction = 0 THEN <<ToInt(s, k, n.whole), 1>>
        ELSE <<ToInt(s, k, n.whole) * Pow10(n.fraction)
                   + ToInt(s, k + n.whole + 1, n.fraction), Pow10(n.fraction)>>

\* int() of a fraction that is not negative
Trunc(x) == x[1] \div x[2]

\* the keyword lists of _to_monthly (lines 42, 46, 50)
NightCues ==
    { <<29, 14, 9, 7, 8, 20>>, <<16, 5, 18, 0, 14, 9, 7, 8, 20>>, <<29, 14, 9, 20, 5>>, <<14, 9, 7, 8, 20, 12, 25>>, <<29, 14>> }
WeekCues ==
    { <<29, 23, 5, 5, 11>>, <<16, 5, 18, 0, 23, 5, 5, 11>>, <<29, 23, 11>>, <<23, 5, 5, 11, 12, 25>>, <<29, 23>> }
YearCues ==
    { <<29, 25, 5, 1, 18>>, <<16, 5, 18, 0, 25, 5, 1, 18>>, <<29, 25, 18>>, <<1, 14, 14, 21, 1, 12, 12, 25>> }

HasCue(text, cues) == \E w \in cues : Contains(text, w)

\* lines 53-64: no cue, the amount is monthly unless it is suspiciously low
MonthlyDefault(monthly) ==
    IF monthly < 200 THEN monthly * 30
    ELSE IF monthly < 600 THEN (monthly * 433) \div 100
    ELSE monthly

\* _to_monthly with the weekly cues looked for before the nightly ones
to_monthly_week_first(amount, text_in) ==
    LET text == Lower(text_in)
    IN  IF HasCue(text, WeekCues) THEN Trunc(<<amount[1] * 433, amount[2] * 100>>)
        ELSE IF HasCue(text, NightCues) THEN Trunc(<<amount[1] * 30, amount[2]>>)
        ELSE IF HasCue(text, YearCues) THEN Trunc(<<amount[1], amount[2] * 12>>)
        ELSE MonthlyDefault(Trunc(amount))


\* _to_monthly(amount, text); 4.33 is 433/100
to_monthly(amount, text_in) ==
    LET text == Lower(text_in)
    IN  IF HasCue(text, NightCues) THEN Trunc(<<amount[1] * 30, amount[2]>>)
        ELSE IF HasCue(text, WeekCues) THEN Trunc(<<amount[1] * 433, amount[2] * 100>>)
        ELSE IF HasCue(text, YearCues) THEN Trunc(<<amount[1], amount[2] * 12>>)
        ELSE MonthlyDefault(Trunc(amount))

\* re.search(r"(\d+\.?\d*)\s*k", text): where the match starts, 0 for no match
KMatch(text) ==
    LET hits == {k \in 1..Len(text) :
                    LET after == k + NumberAt(text, k).len
                        at == after + SpaceRun(text, after)
                    IN  NumberAt(text, k).whole > 0 /\ at <= Len(text) /\ text[at] = 11}
    IN  IF hits = {} THEN 0 ELSE CHOOSE k \in hits : \A j \in hits : k <= j

\* re.search(r"(\d+\.?\d*)", text): where the match starts, 0 for no match
NumMatch(text) ==
    LET hits == {k \in 1..Len(text) : IsDigit(text[k])}
    IN  IF hits = {} THEN 0 ELSE CHOOSE k \in hits : \A j \in hits : k <= j

\* parse_price(raw): None, or the monthly rent
parse_price(raw_in) ==
    IF raw_in = << >> THEN None
    ELSE LET text == Strip(WithoutNoise(Strip(Lower(raw_in))))
         IN  IF KMatch(text) > 0
             THEN LET amount == ToFloat(text, KMatch(text))
                  IN  Some(to_monthly(<<amount[1] * 1000, amount[2]>>, text))
             ELSE IF NumMatch(text) = 0 THEN None
             ELSE Some(to_monthly(ToFloat(text, NumMatch(text)), text))

\* the length of the run of [\d,] that starts at position k
RECURSIVE AmountRun(_, _)
AmountRun(s, k) ==
    IF k <= Len(s) /\ (IsDigit(s[k]) \/ IsComma(s[k])) THEN 1 + AmountRun(s, k + 1) ELSE 0

\* mo|month|week|wk|night|nite, in the order the alternatives are tried
PeriodWords ==
    << <<13, 15>>, <<13, 15, 14, 20, 8>>, <<23, 5, 5, 11>>, <<23, 11>>, <<14, 9, 7, 8, 20>>, <<14, 9, 20, 5>> >>

\* (?:/\s*(?:mo|month|week|wk|night|nite)) standing at position k: its length,
\* 0 when it does not match
PeriodAt(s, k) ==
    IF ~(k <= Len(s) /\ s[k] = 29) THEN 0
    ELSE LET at == k + 1 + SpaceRun(s, k + 1)
             alts == {a \in 1..Len(PeriodWords) : At(s, at, PeriodWords[a])}
         IN  IF alts = {} THEN 0
             ELSE (at - k) + Len(PeriodWords[CHOOSE a \in alts : \A b \in alts : a <= b])

\* [\d,]+\.?\d*\s*[kK]?\s* standing at position k: its length, 0 when it
\* does not match
AmountAt(s, k) ==
    LET run == AmountRun(s, k)
        dot == k + run <= Len(s) /\ IsDot(s[k + run])
        a == k + run + (IF dot THEN 1 + DigitRun(s, k + run + 1) ELSE 0)
        b == a + SpaceRun(s, a)
        c == IF b <= Len(s) /\ s[b] \in {11, 111} THEN b + 1 ELSE b
        d == c + SpaceRun(s, c)
    IN  IF run = 0 THEN 0 ELSE d - k

\* the three patterns of extract_price_from_text standing at position k: the
\* length of the match, 0 when there is none
PatternAt(p, s, k) ==
    LET dollar == p \in {1, 3}
        from == IF dollar THEN k + 1 ELSE k
        amount == AmountAt(s, from)
        period == PeriodAt(s, from + amount)
    IN  IF dollar /\ ~IsDollar(s[k]) THEN 0
        ELSE IF amount = 0 THEN 0
        ELSE IF p = 1 THEN (from - k) + amount + period
        ELSE IF p = 2 THEN (IF period = 0 THEN 0 ELSE amount + period)
        ELSE (from - k) + amount

\* re.search(pattern, text).group(0), << >> standing for no match (a match
\* is never empty)
SearchPattern(p, text) ==
    LET hits == {k \in 1..Len(text) : PatternAt(p, text, k) > 0}
    IN  IF hits = {} THEN << >>
        ELSE LET k == CHOOSE k \in hits : \A j \in hits : k <= j
             IN  SubSeq(text, k, k + PatternAt(p, text, k) - 1)

\* line 83 without the range: any result that is not None or 0
InRangeUnchecked(result) == result # None /\ result[1] # 0


\* line 83: result and 100 <= result <= 15000
InRange(result) == result # None /\ result[1] # 0 /\ 100 <= result[1] /\ result[1] <= 15000

\* extract_price_from_text(text): the patterns from p on
RECURSIVE ExtractFrom(_, _)
ExtractFrom(p, text) ==
    IF p > 3 THEN None
    ELSE LET match == SearchPattern(p, text)
         IN  IF match # << >> /\ InRange(parse_price(match)) THEN parse_price(match)
             ELSE ExtractFrom(p + 1, text)

extract_price_from_text(text) == IF text = << >> THEN None ELSE ExtractFrom(1, text)


\* The amounts parse_price is tried on: as written, and their value
PriceAmounts ==
    {
      [text |-> <<30>>, value |-> <<0, 1>>],  \* "0"
      [text |-> <<35>>, value |-> <<5, 1>>],  \* "5"
      [text |-> <<36, 35>>, value |-> <<65, 1>>],  \* "65"
      [text |-> <<31, 35, 30>>, value |-> <<150, 1>>],  \* "150"
      [text |-> <<31, 39, 39>>, value |-> <<199, 1>>],  \* "199"
      [text |-> <<31, 39, 39, 42, 35>>, value |-> <<399, 2>>],  \* "199.5"
      [text |-> <<32, 30, 30>>, value |-> <<200, 1>>],  \* "200"
      [text |-> <<34, 35, 30>>, value |-> <<450, 1>>],  \* "450"
      [text |-> <<34, 35, 30, 42, 35>>, value |-> <<901, 2>>],  \* "450.5"
      [text |-> <<35, 39, 39>>, value |-> <<599, 1>>],  \* "599"
      [text |-> <<35, 39, 39, 42, 35>>, value |-> <<1199, 2>>],  \* "599.5"
      [text |-> <<36, 30, 30>>, value |-> <<600, 1>>],  \* "600"
      [text |-> <<31, 38, 30, 30>>, value |-> <<1800, 1>>],  \* "1800"
      [text |-> <<31, 41, 38, 30, 30>>, value |-> <<1800, 1>>],  \* "1,800"
      [text |-> <<31, 35, 30, 30, 30>>, value |-> <<15000, 1>>],  \* "15000"
      [text |-> <<32, 34, 30, 30, 30>>, value |-> <<24000, 1>>],  \* "24000"
      [text |-> <<31, 42, 35, 11>>, value |-> <<1500, 1>>],  \* "1.5k"
      [text |-> <<32, 0, 11>>, value |-> <<2000, 1>>]  \* "2 k"
    }

\* What follows the amount, and the periods it names
PriceCues ==
    {
      [text |-> <<>>, periods |-> {}],  \* ""
      [text |-> <<29, 13, 15>>, periods |-> {}],  \* "/mo"
      [text |-> <<29, 13, 15, 14, 20, 8>>, periods |-> {}],  \* "/month"
      [text |-> <<0, 1, 0, 13, 15, 14, 20, 8>>, periods |-> {}],  \* " a month"
      [text |-> <<29, 14, 9, 7, 8, 20>>, periods |-> {"night"}],  \* "/night"
      [text |-> <<0, 16, 5, 18, 0, 14, 9, 7, 8, 20>>, periods |-> {"night"}],  \* " per night"
      [text |-> <<29, 14, 9, 20, 5>>, periods |-> {"night"}],  \* "/nite"
      [text |-> <<0, 14, 9, 7, 8, 20, 12, 25>>, periods |-> {"night"}],  \* " nightly"
      [text |-> <<29, 14>>, periods |-> {"night"}],  \* "/n"
      [text |-> <<29, 23, 5, 5, 11>>, periods |-> {"week"}],  \* "/week"
      [text |-> <<0, 16, 5, 18, 0, 23, 5, 5, 11>>, periods |-> {"week"}],  \* " per week"
      [text |-> <<29, 23, 11>>, periods |-> {"week"}],  \* "/wk"
      [text |-> <<0, 23, 5, 5, 11, 12, 25>>, periods |-> {"week"}],  \* " weekly"
      [text |-> <<29, 23>>, periods |-> {"week"}],  \* "/w"
      [text |-> <<29, 25, 5, 1, 18>>, periods |-> {"year"}],  \* "/year"
      [text |-> <<0, 16, 5, 18, 0, 25, 5, 1, 18>>, periods |-> {"year"}],  \* " per year"
      [text |-> <<29, 25, 18>>, periods |-> {"year"}],  \* "/yr"
      [text |-> <<0, 1, 14, 14, 21, 1, 12, 12, 25>>, periods |-> {"year"}],  \* " annually"
      [text |-> <<29, 23, 5, 5, 11, 0, 14, 9, 7, 8, 20, 12, 25>>, periods |-> {"week", "night"}],  \* "/week nightly"
      [text |-> <<29, 25, 18, 0, 23, 5, 5, 11, 12, 25>>, periods |-> {"year", "week"}],  \* "/yr weekly"
      [text |-> <<0, 1, 14, 14, 21, 1, 12, 12, 25, 29, 14, 9, 7, 8, 20>>, periods |-> {"year", "night"}],  \* " annually/night"
      [text |-> <<29, 25, 18, 29, 23, 11, 29, 14, 9, 20, 5>>, periods |-> {"year", "week", "night"}]  \* "/yr/wk/nite"
    }

DollarSigns == {<< >>, <<40>>}

PriceTexts ==
    {d \o a.text \o c.text : d \in DollarSigns, a \in PriceAmounts, c \in PriceCues}

\* The price phrases of the longer texts extract_price_from_text is tried on
PricePhrases ==
    {
      <<40, 31, 38, 30, 30>>,  \* "$1800"
      <<40, 31, 38, 30, 30, 29, 13, 15>>,  \* "$1800/mo"
      <<31, 38, 30, 30, 29, 13, 15>>,  \* "1800/mo"
      <<40, 32, 30, 30, 30, 30>>,  \* "$20000"
      <<40, 35, 30>>,  \* "$50"
      <<40, 36, 35, 29, 14, 9, 7, 8, 20>>,  \* "$65/night"
      <<34, 35, 30, 29, 23, 11>>,  \* "450/wk"
      <<40, 32, 11>>,  \* "$2k"
      <<31, 38, 30, 30>>,  \* "1800"
      <<40, 31, 41, 38, 30, 30, 0, 11>>,  \* "$1,800 k"
      <<40, 39, 39, 29, 13, 15, 14, 20, 8>>,  \* "$99/month"
      <<40, 31, 35, 30, 30, 30>>,  \* "$15000"
      <<31, 35, 30, 30, 31, 29, 13, 15>>,  \* "15001/mo"
      <<40, 31, 30, 30>>  \* "$100"
    }

ExtractTexts ==
    {lead \o p \o q : lead \in {<< >>, <<18, 5, 14, 20, 0>>}, p \in PricePhrases,
        q \in {<< >>} \cup {<<0, 15, 18, 0>> \o r : r \in PricePhrases}}

\* parse_price(raw)
ParsePriceCall ==
    /\ pc = "price"
    /\ parsed' = ReturnsValue(parse_price(raw))
    /\ pc' = "priced"
    /\ UNCHANGED <<dedupVars, harnessVars, pair, verdict, fps, ratings, raw,
                   sheetVars, runVars>>

\* extract_price_from_text(raw)
ExtractPriceCall ==
    /\ pc = "extract"
    /\ parsed' = ReturnsValue(extract_price_from_text(raw))
    /\ pc' = "extracted"
    /\ UNCHANGED <<dedupVars, harnessVars, pair, verdict, fps, ratings, raw,
                   sheetVars, runVars>>

\* One call of parse_price or of extract_price_from_text on a text
InitPrice ==
    /\ \/ pc = "price" /\ raw \in PriceTexts \cup {<< >>}
       \/ pc = "extract" /\ raw \in ExtractTexts \cup {<< >>}
    /\ parsed = NotCalled
    /\ pair = NoPair
    /\ verdict = << >>
    /\ fps = << >>
    /\ ratings = << >>
    /\ listings = << >>
    /\ seen_fingerprints = {}
    /\ idx = 1
    /\ batch_fingerprints = {}
    /\ new_listings = << >>
    /\ kept = << >>
    /\ round = 1
    /\ first_out = << >>
    /\ worksheet = << >>
    /\ seen_ws = << >>
    /\ dry_run = FALSE
    /\ sheet_sync = FALSE
    /\ settings = Settings("")
    /\ runs = 0
    /\ written = {}
    /\ scrapes = << >>

NextPrice == ParsePriceCall \/ ExtractPriceCall

SpecPrice == InitPrice /\ [][NextPrice]_vars


-----------------------------------------------------------------------------
(* parsers/location_parser.py: extract_neighborhood *)

\* further characters: "(" 43, ")" 44

\* config/neighborhoods.py is not among the sources: the alias table and the
\* neighbourhood-to-borough table are a sample of what the specification
\* describes (aliases map to canonical names, canonical names to boroughs),
\* in the order of the dict.
NEIGHBORHOOD_ALIASES ==
    <<
      [alias |-> <<5, 1, 19, 20, 0, 22, 9, 12, 12, 1, 7, 5>>, canonical |-> <<105, 1, 19, 20, 0, 122, 9, 12, 12, 1, 7, 5>>],  \* "east village -> East Village"
      [alias |-> <<21, 5, 19>>, canonical |-> <<121, 16, 16, 5, 18, 0, 105, 1, 19, 20, 0, 119, 9, 4, 5>>],  \* "ues -> Upper East Side"
      [alias |-> <<19, 15, 8, 15>>, canonical |-> <<119, 15, 108, 15>>],  \* "soho -> SoHo"
      [alias |-> <<12, 9, 3>>, canonical |-> <<112, 15, 14, 7, 0, 109, 19, 12, 1, 14, 4, 0, 103, 9, 20, 25>>],  \* "lic -> Long Island City"
      [alias |-> <<12, 5, 19>>, canonical |-> <<112, 15, 23, 5, 18, 0, 105, 1, 19, 20, 0, 119, 9, 4, 5>>],  \* "les -> Lower East Side"
      [alias |-> <<2, 9, 12, 12, 25, 2, 21, 18, 7>>, canonical |-> <<123, 9, 12, 12, 9, 1, 13, 19, 2, 21, 18, 7>>]  \* "billyburg -> Williamsburg"
    >>

NEIGHBORHOOD_BOROUGHS ==
    <<
      [name |-> <<119, 15, 108, 15>>, borough |-> "Manhattan"],  \* "SoHo"
      [name |-> <<103, 8, 5, 12, 19, 5, 1>>, borough |-> "Manhattan"],  \* "Chelsea"
      [name |-> <<105, 1, 19, 20, 0, 122, 9, 12, 12, 1, 7, 5>>, borough |-> "Manhattan"],  \* "East Village"
      [name |-> <<121, 16, 16, 5, 18, 0, 105, 1, 19, 20, 0, 119, 9, 4, 5>>, borough |-> "Manhattan"],  \* "Upper East Side"
      [name |-> <<112, 15, 23, 5, 18, 0, 105, 1, 19, 20, 0, 119, 9, 4, 5>>, borough |-> "Manhattan"],  \* "Lower East Side"
      [name |-> <<123, 9, 12, 12, 9, 1, 13, 19, 2, 21, 18, 7>>, borough |-> "Brooklyn"],  \* "Williamsburg"
      [name |-> <<112, 15, 14, 7, 0, 109, 19, 12, 1, 14, 4, 0, 103, 9, 20, 25>>, borough |-> "Queens"],  \* "Long Island City"
      [name |-> <<101, 19, 20, 15, 18, 9, 1>>, borough |-> "Queens"]  \* "Astoria"
    >>

\* get_borough(name): the borough of the table, Unknown for a name it lacks
get_borough(name) ==
    LET rows == {k \in 1..Len(NEIGHBORHOOD_BOROUGHS) : NEIGHBORHOOD_BOROUGHS[k].name = name}
    IN  IF rows = {} THEN "Unknown"
        ELSE NEIGHBORHOOD_BOROUGHS[CHOOSE k \in rows : TRUE].borough

\* [\s,./\-()]
IsDelimiter(c) == c \in {0, 41, 42, 29, 28, 43, 44}

\* (?:^|[\s,./\-()]) alias (?:$|[\s,./\-()]) is found in s (line 29)
AliasIn(s, alias) ==
    \E k \in 1..(Len(s) - Len(alias) + 1) :
        /\ At(s, k, alias)
        /\ k = 1 \/ IsDelimiter(s[k - 1])
        /\ k + Len(alias) > Len(s) \/ IsDelimiter(s[k + Len(alias)])

\* \w, and \bword\b is found in s (lines 42-45, 49)
IsWordChar(c) == c \in 1..26 \/ c \in 30..39 \/ c \in 101..126
WordIn(s, word) ==
    \E k \in 1..(Len(s) - Len(word) + 1) :
        /\ At(s, k, word)
        /\ k = 1 \/ ~IsWordChar(s[k - 1])
        /\ k + Len(word) > Len(s) \/ ~IsWordChar(s[k + Len(word)])

\* sorted(..., key=len, reverse=True) and the first hit: of the rows that
\* hit, the longest, and of those of one length the first of the dict
FirstLongest(hits, length) ==
    CHOOSE k \in hits :
        \A j \in hits : length[j] < length[k] \/ (length[j] = length[k] /\ k <= j)

\* borough_patterns, in the order of the dict (lines 41-46)
borough_patterns ==
    <<
      [borough |-> "Manhattan", words |-> <<<<13, 1, 14, 8, 1, 20, 20, 1, 14>>, <<14, 25, 3>>>>],  \* "manhattan, nyc"
      [borough |-> "Brooklyn", words |-> <<<<2, 18, 15, 15, 11, 12, 25, 14>>, <<2, 11>>>>],  \* "brooklyn, bk"
      [borough |-> "Queens", words |-> <<<<17, 21, 5, 5, 14, 19>>>>],  \* "queens"
      [borough |-> "Bronx", words |-> <<<<2, 18, 15, 14, 24>>>>]  \* "bronx"
    >>

\* extract_neighborhood(text): <<neighborhood, borough>>
extract_neighborhood(text) ==
    LET lower == Strip(Lower(text))
        aliases == {k \in 1..Len(NEIGHBORHOOD_ALIASES) :
                       AliasIn(lower, NEIGHBORHOOD_ALIASES[k].alias)}
        names == {k \in 1..Len(NEIGHBORHOOD_BOROUGHS) :
                     Contains(lower, Lower(NEIGHBORHOOD_BOROUGHS[k].name))}
        boroughs == {k \in 1..Len(borough_patterns) :
                        \E w \in 1..Len(borough_patterns[k].words) :
                            WordIn(lower, borough_patterns[k].words[w])}
    IN  IF text = << >> THEN <<<< >>, "Unknown">>
        ELSE IF aliases # {}
        THEN LET canonical ==
                     NEIGHBORHOOD_ALIASES[FirstLongest(aliases,
                         [k \in aliases |-> Len(NEIGHBORHOOD_ALIASES[k].alias)])].canonical
             IN  <<canonical, get_borough(canonical)>>
        ELSE IF names # {}
        THEN LET name ==
                     NEIGHBORHOOD_BOROUGHS[FirstLongest(names,
                         [k \in names |-> Len(NEIGHBORHOOD_BOROUGHS[k].name)])].name
             IN  <<name, get_borough(name)>>
        ELSE IF boroughs # {}
        THEN <<<< >>, borough_patterns[CHOOSE k \in boroughs : \A j \in boroughs : k <= j].borough>>
        ELSE <<<< >>, "Unknown">>

\* The texts extract_neighborhood is tried on
LocationHeads ==
    {
      <<>>,  \* ""
      <<18, 15, 15, 13, 0, 9, 14, 0>>,  \* "room in "
      <<119, 21, 14, 14, 25, 0, 31, 102, 118, 41, 0>>  \* "Sunny 1BR, "
    }
LocationPlaces ==
    {
      <<>>,  \* ""
      <<19, 15, 8, 15>>,  \* "soho"
      <<119, 15, 108, 15>>,  \* "SoHo"
      <<21, 5, 19>>,  \* "ues"
      <<5, 1, 19, 20, 0, 22, 9, 12, 12, 1, 7, 5>>,  \* "east village"
      <<23, 9, 12, 12, 9, 1, 13, 19, 2, 21, 18, 7>>,  \* "williamsburg"
      <<101, 19, 20, 15, 18, 9, 1>>,  \* "Astoria"
      <<3, 8, 5, 12, 19, 5, 1>>,  \* "chelsea"
      <<13, 1, 14, 8, 1, 20, 20, 1, 14>>,  \* "manhattan"
      <<114, 125, 103>>,  \* "NYC"
      <<2, 18, 15, 15, 11, 12, 25, 14>>,  \* "brooklyn"
      <<2, 11>>,  \* "bk"
      <<17, 21, 5, 5, 14, 19>>,  \* "queens"
      <<20, 8, 5, 0, 2, 18, 15, 14, 24>>,  \* "the bronx"
      <<19, 20, 1, 20, 5, 14, 0, 9, 19, 12, 1, 14, 4>>,  \* "staten island"
      <<119, 20, 1, 20, 5, 14, 0, 109, 19, 12, 1, 14, 4>>,  \* "Staten Island"
      <<2, 18, 15, 14, 24, 22, 9, 12, 12, 5>>,  \* "bronxville"
      <<19, 15, 8, 15, 20, 5, 12>>,  \* "sohotel"
      <<12, 5, 19, 19, 15, 14>>,  \* "lesson"
      <<43, 112, 109, 103, 44>>,  \* "(LIC)"
      <<2, 11, 11>>  \* "bkk"
    }
LocationTails ==
    {
      <<>>,  \* ""
      <<0, 14, 25>>,  \* " ny"
      <<41, 0, 2, 18, 15, 15, 11, 12, 25, 14>>,  \* ", brooklyn"
      <<29, 17, 21, 5, 5, 14, 19>>,  \* "/queens"
      <<0, 14, 5, 1, 18, 0, 12, 5, 19>>  \* " near les"
    }
LocationTexts == {h \o p \o t : h \in LocationHeads, p \in LocationPlaces, t \in LocationTails}

\* extract_neighborhood(raw)
ExtractNeighborhoodCall ==
    /\ pc = "locate"
    /\ parsed' = ReturnsValue(extract_neighborhood(raw))
    /\ pc' = "located"
    /\ UNCHANGED <<dedupVars, harnessVars, pair, verdict, fps, ratings, raw,
                   sheetVars, runVars>>

\* One call of extract_neighborhood on a text
InitLocation ==
    /\ pc = "locate"
    /\ raw \in LocationTexts
    /\ parsed = NotCalled
    /\ pair = NoPair
    /\ verdict = << >>
    /\ fps = << >>
    /\ ratings = << >>
    /\ listings = << >>
    /\ seen_fingerprints = {}
    /\ idx = 1
    /\ batch_fingerprints = {}
    /\ new_listings = << >>
    /\ kept = << >>
    /\ round = 1
    /\ first_out = << >>
    /\ worksheet = << >>
    /\ seen_ws = << >>
    /\ dry_run = FALSE
    /\ sheet_sync = FALSE
    /\ settings = Settings("")
    /\ runs = 0
    /\ written = {}
    /\ scrapes = << >>

NextLocation == ExtractNeighborhoodCall

SpecLocation == InitLocation /\ [][NextLocation]_vars

-----------------------------------------------------------------------------
(* scripts/cleanup_sheet.py: row_to_listing and the re-scoring of main *)

\* str() of an integer that is not negative
RECURSIVE Str(_)
Str(n) == IF n < 10 THEN <<30 + n>> ELSE Str(n \div 10) \o <<30 + (n % 10)>>

\* str() of a date: YYYY-MM-DD
IsoFormat(d) ==
    LET Digit(n, place) == 30 + ((n \div place) % 10)
    IN  <<Digit(d[1], 1000), Digit(d[1], 100), Digit(d[1], 10), Digit(d[1], 1), 28,
          Digit(d[2], 10), Digit(d[2], 1), 28, Digit(d[3], 10), Digit(d[3], 1)>>

\* "N/A"
NotAvailable == <<114>> \o <<29>> \o <<101>>

\* worksheet.get_all_values(): the cells of a row that to_sheet_row wrote, as
\* the strings the sheet gives back (listing.py 71-89, cleanup_sheet.py 161)
RowValues(row) ==
    [ rating |-> Str(row.rating \div 10) \o <<42>> \o Str(row.rating % 10),
      price |-> IF row.price = None THEN NotAvailable ELSE Str(row.price[1]),
      neighborhood |-> row.neighborhood, borough |-> row.borough, type |-> row.type,
      apartment_details |-> row.apartment_details,
      available_from |-> IF row.available_from = None THEN << >>
                         ELSE IsoFormat(row.available_from[1]),
      available_to |-> IF row.available_to = None THEN << >>
                       ELSE IsoFormat(row.available_to[1]),
      furnished |-> row.furnished, source |-> row.source, link |-> row.link,
      description |-> row.description, contact |-> row.contact ]

\* float(s) succeeds (digits, with or without a fraction)
IsNumber(s) == s # << >> /\ NumberAt(s, 1).whole > 0 /\ NumberAt(s, 1).len = Len(s)

\* _parse_date_str: date.fromisoformat of YYYY-MM-DD, None for anything else
parse_date_str(s) ==
    IF /\ Len(s) = 10
       /\ \A k \in {1, 2, 3, 4, 6, 7, 9, 10} : IsDigit(s[k])
       /\ s[5] = 28 /\ s[8] = 28
    THEN TryDate(ToInt(s, 1, 4), ToInt(s, 6, 2), ToInt(s, 9, 2)).value
    ELSE None

\* models/enums.py: the values of ListingSource, Borough and ListingType
ListingSources ==
    {"Facebook", "Craigslist", "LeaseBreak", "SpareRoom", "Listings Project",
     "Furnished Finder", "Roomi"}
Boroughs == {"Manhattan", "Brooklyn", "Queens", "Bronx", "Staten Island", "Unknown"}
ListingTypes ==
    {"Studio", "1BR", "2BR", "3BR+", "Room in Shared", "Hotel/Extended Stay", "Unknown"}

\* row_to_listing(row): the listing rebuilt from the cells; the fields the
\* row does not hold keep the defaults of Listing
row_to_listing(row) ==
    LET number == WithoutNoise(row.price)
    IN  [NewListing(IF row.source \in ListingSources THEN row.source ELSE CRAIGSLIST) EXCEPT
            !.source_url = row.link,
            !.price_monthly = IF row.price = << >> \/ row.price = NotAvailable THEN None
                              ELSE IF IsNumber(number) THEN Some(Trunc(ToFloat(number, 1)))
                              ELSE None,
            !.price_raw = row.price,
            !.neighborhood = row.neighborhood,
            !.borough = IF row.borough \in Boroughs THEN row.borough ELSE "Unknown",
            !.listing_type = IF row.type \in ListingTypes THEN row.type ELSE UNKNOWN_TYPE,
            !.apartment_details = row.apartment_details,
            !.is_furnished = IF row.furnished = "Yes" THEN Some(TRUE)
                             ELSE IF row.furnished = "No" THEN Some(FALSE) ELSE None,
            !.available_from = parse_date_str(row.available_from),
            !.available_to = parse_date_str(row.available_to),
            !.description = row.description,
            !.contact_info = row.contact]

\* float(current_rating) if current_rating else 0.0, in tenths
CurrentRating(cell) ==
    IF IsNumber(cell) THEN Trunc(<<ToFloat(cell, 1)[1] * 10, ToFloat(cell, 1)[2]>>) ELSE 0

\* main.py, Phases 6 and 7, for the listing of the batch: it is scored and
\* append_listings writes its row
StoreScored ==
    /\ pc = "fresh"
    /\ new_listings' = <<Scored(listings[1], settings)>>
    /\ worksheet' = AppendListingsRows(worksheet, new_listings', TRUE, TRUE)
    /\ pc' = "stored"
    /\ UNCHANGED <<listings, idx, seen_fingerprints, batch_fingerprints, kept,
                   harnessVars, pairVars, seen_ws, runVars>>

\* cleanup_sheet.main(dry_run).  Phase 1 corrects nothing here: the row is
\* not from Craigslist, or fetch_craigslist_details returns None.  Phase 2
\* rebuilds each listing from its row and scores it; a rating that differs
\* from the stored one by more than 0.05 is queued with its breakdown.
\* Phase 3 writes the queued cells unless the run is dry, and re-sorts.
CleanupMain ==
    /\ pc = "stored"
    /\ LET rescored == [k \in 1..Len(worksheet) |->
                           compute_rating(row_to_listing(RowValues(worksheet[k])), settings)]
           changed == {k \in 1..Len(worksheet) :
                          rescored[k].rating # CurrentRating(RowValues(worksheet[k]).rating)}
       IN  /\ ratings' = rescored
           /\ worksheet' =
                 IF dry_run \/ changed = {} THEN worksheet
                 ELSE SortByRating([k \in 1..Len(worksheet) |->
                          IF k \in changed
                          THEN [worksheet[k] EXCEPT !.rating = rescored[k].rating,
                                                    !.breakdown = rescored[k].breakdown]
                          ELSE worksheet[k]])
    /\ pc' = "cleaned"
    /\ UNCHANGED <<dedupVars, harnessVars, pair, verdict, fps, raw, parsed,
                   seen_ws, runVars>>

\* The listings the round trip is tried on: those of the scoring families
\* that validate_listing accepts, with a link and an id
CleanupListings ==
    {l \in {[m EXCEPT !.source_url = "u1", !.id = GenerateFingerprint([m EXCEPT !.source_url = "u1"])] :
               m \in PriceFamily \cup LocationFamily \cup TimingFamily \cup BonusFamily
                        \cup {Worst, Best}} :
        validate_listing(l)}

\* One listing scored and written by main, then one run of the cleanup script
InitCleanup ==
    /\ pc = "fresh"
    /\ listings \in {<<l>> : l \in CleanupListings}
    /\ dry_run \in BOOLEAN
    /\ sheet_sync = TRUE
    /\ settings = Settings("sheet")
    /\ worksheet = << >>
    /\ seen_ws = << >>
    /\ new_listings = << >>
    /\ seen_fingerprints = {}
    /\ batch_fingerprints = {}
    /\ idx = 1
    /\ kept = << >>
    /\ round = 1
    /\ first_out = << >>
    /\ pair = NoPair
    /\ verdict = << >>
    /\ fps = << >>
    /\ ratings = << >>
    /\ raw = << >>
    /\ parsed = NotCalled
    /\ runs = 0
    /\ written = {}
    /\ scrapes = << >>

NextCleanup == StoreScored \/ CleanupMain

SpecCleanup == InitCleanup /\ [][NextCleanup]_vars


-----------------------------------------------------------------------------
(* Properties of deduplicate (checked under SpecDedup) *)

Returned == pc = "returned"

Dropped == (1..Len(listings)) \ Range(kept)

\* C1: the list deduplicate returns holds no record whose fingerprint is in
\* the seen set, no two records with the same fingerprint and no two records
\* that _are_likely_duplicates calls duplicates of each other.
C1_OutputIsNewAndUnique ==
    Returned =>
        /\ \A k \in 1..Len(new_listings) : new_listings[k].id \notin seen_fingerprints
        /\ \A j, k \in 1..Len(new_listings) :
              j # k => /\ new_listings[j].id # new_listings[k].id
                       /\ ~AreLikelyDuplicates(new_listings[j], new_listings[k])

\* C1 witness: a call that returned something and dropped one record as seen
\* and another as a fuzzy duplicate of a different fingerprint.
C1_Witness ==
    /\ Returned /\ round = 1
    /\ new_listings # << >>
    /\ \E i \in Dropped : listings[i].id \in seen_fingerprints
    /\ \E j \in Dropped :
          /\ listings[j].id \notin seen_fingerprints \cup Ids(new_listings)
          /\ IsFuzzyDuplicate(listings[j], new_listings)

\* The subsequence of seq at the positions in S, in order
RECURSIVE Pick(_, _, _)
Pick(seq, S, k) ==
    IF k > Len(seq) THEN << >>
    ELSE (IF k \in S THEN <<seq[k]>> ELSE << >>) \o Pick(seq, S, k + 1)

IsSubsequence(out, in) == \E S \in SUBSET (1..Len(in)) : out = Pick(in, S, 1)

\* C6: the returned list is a subsequence of the input (same records, same
\* relative order); the empty batch gives the empty list.
C6_OutputIsSubsequence ==
    Returned =>
        /\ IsSubsequence(new_listings, listings)
        /\ (listings = << >> => new_listings = << >>)

\* C6 witness: a batch of three of which the first and the last are returned.
C6_Witness ==
    /\ Returned
    /\ Len(listings) = 3
    /\ kept = <<1, 3>>
    /\ listings[1] # listings[3]

SameNeighborhood(a, b) == Lower(a.neighborhood) = Lower(b.neighborhood)

Similar(a, b) ==
    /\ CompareText(a) # << >>
    /\ CompareText(b) # << >>
    /\ TokenSortRatio(CompareText(a), CompareText(b)) > SimilarityThreshold

HasPrices(a, b, p, q) ==
    \/ a.price_monthly = Some(p) /\ b.price_monthly = Some(q)
    \/ a.price_monthly = Some(q) /\ b.price_monthly = Some(p)

BothKept(i, j) == i \in Range(kept) /\ j \in Range(kept)

\* C9 as stated: two records of a batch with prices 1800 and 1900, the same
\* neighbourhood, the same type and similarity above 70 collapse to one.
C9_AsStated ==
    Returned =>
        \A i, j \in 1..Len(listings) :
            ( /\ i < j
              /\ HasPrices(listings[i], listings[j], 1800, 1900)
              /\ SameNeighborhood(listings[i], listings[j])
              /\ listings[i].listing_type = listings[j].listing_type
              /\ Similar(listings[i], listings[j]) )
            => ~BothKept(i, j)

\* C9 amended: two records of a batch whose (non-zero) prices are within 50 of
\* each other, with the same neighbourhood, the same type and similarity
\* above 70, collapse to one; a pair priced 1800 and 1900 is no fuzzy
\* duplicate, and both are returned when they are the whole batch, have
\* different fingerprints and neither is seen.
C9_Within50Collapse ==
    Returned =>
        /\ \A i, j \in 1..Len(listings) :
              ( /\ i < j
                /\ Truthy(listings[i].price_monthly)
                /\ Truthy(listings[j].price_monthly)
                /\ Abs(listings[i].price_monthly[1] - listings[j].price_monthly[1]) <= 50
                /\ SameNeighborhood(listings[i], listings[j])
                /\ listings[i].listing_type = listings[j].listing_type
                /\ Similar(listings[i], listings[j]) )
              => ~BothKept(i, j)
        /\ ( /\ Len(listings) = 2
             /\ HasPrices(listings[1], listings[2], 1800, 1900)
             /\ listings[1].id # listings[2].id
             /\ {listings[1].id, listings[2].id} \cap seen_fingerprints = {} )
           => kept = <<1, 2>>

\* C9 witness: 1800 and 1850 with different fingerprints, nothing seen: the
\* second is dropped as a fuzzy duplicate.
C9_Witness ==
    /\ Returned /\ round = 1
    /\ Len(listings) = 2
    /\ HasPrices(listings[1], listings[2], 1800, 1850)
    /\ listings[1].id # listings[2].id
    /\ seen_fingerprints = {}
    /\ kept = <<1>>

SameUrl(a, b) == a.source_url # "" /\ a.source_url = b.source_url

HasOwnFingerprint(l) == l.id = GenerateFingerprint(l)

C2_SecondCallEmpty ==
    (Returned /\ round = 2) => new_listings = << >>

-----------------------------------------------------------------------------
(* Properties of the pipeline (checked under Spec) *)

\* C3 as stated, for the later runs that open the sheet: once a run has
\* written a fingerprint, the Deduplicator of every later run is seeded with
\* it and deduplicate does not return a record with that fingerprint.
C3_WrittenNeverReturned ==
    (sheet_sync /\ pc \in {"dedup", "returned"}) =>
        /\ written \subseteq seen_fingerprints
        /\ Ids(new_listings) \cap written = {}

\* C4 as stated: no two data rows of the main worksheet carry the same
\* Listing ID, and no row has an empty Listing ID.
C4_NoDuplicateRows ==
    /\ \A j, k \in 1..Len(worksheet) : j # k => worksheet[j].id # worksheet[k].id
    /\ \A k \in 1..Len(worksheet) : worksheet[k].id # NoId

IsScored(l) ==
    /\ l.rating >= 10 /\ l.rating <= 100
    /\ l.rating = compute_rating(l, settings).rating
    /\ l.rating_breakdown = compute_rating(l, settings).breakdown
    /\ DOMAIN l.rating_breakdown = Range(Dimensions)

\* every record of the batch is returned or duplicates a returned one
DedupedInBatch ==
    /\ \A j, k \in 1..Len(new_listings) :
          j # k => /\ new_listings[j].id # new_listings[k].id
                   /\ ~AreLikelyDuplicates(new_listings[j], new_listings[k])
    /\ \A i \in 1..Len(listings) :
          \E k \in 1..Len(new_listings) :
              \/ new_listings[k].id = listings[i].id
              \/ AreLikelyDuplicates(listings[i], new_listings[k])

DryRunState ==
    dry_run =>
        /\ pc \in {"dedup", "returned", "scored"} =>
              ~sheet_sync /\ seen_fingerprints = {}
        /\ pc = "scored" =>
              /\ DedupedInBatch
              /\ \A k \in 1..Len(new_listings) : IsScored(new_listings[k])

\* C5: a dry run leaves the main worksheet and the _seen log as they were,
\* builds the Deduplicator without a sheet (empty seen set), and still
\* deduplicates within the batch and scores.
C5_DryRunWritesNothing ==
    /\ []DryRunState
    /\ [][dry_run' => (worksheet' = worksheet /\ seen_ws' = seen_ws)]_vars

\* C5 witness: a dry run over a sheet that already holds the first record of
\* the batch: the record is returned and scored, its in-batch duplicate is
\* dropped.
C5_Witness ==
    /\ dry_run /\ pc = "scored"
    /\ worksheet # << >>
    /\ Len(listings) = 2
    /\ Len(new_listings) = 1
    /\ new_listings[1].id \in GetExistingIds(worksheet, TRUE)
    /\ new_listings[1].rating > 0

-----------------------------------------------------------------------------
(* Properties of _are_likely_duplicates (checked under SpecPair) *)

Compared == pc = "compared"

\* C7: _are_likely_duplicates(a, b) = _are_likely_duplicates(b, a).
C7_Symmetric ==
    Compared => verdict[1].dup = verdict[2].dup

\* C7 witness: a pair judged duplicates with both prices missing and one
\* neighbourhood missing, and a pair rejected with one text missing.
C7_Witness ==
    /\ Compared
    /\ \/ /\ pair[1].price_monthly = None /\ pair[2].price_monthly = None
          /\ pair[1].neighborhood = << >> /\ pair[2].neighborhood # << >>
          /\ verdict[1].dup /\ verdict[2].dup
       \/ /\ CompareText(pair[1]) = << >> /\ CompareText(pair[2]) # << >>
          /\ verdict[1].line = 98 /\ verdict[2].line = 98

PricePasses(v) == v.line \notin {78, 80}

\* C8 as stated: both prices known (any integer): the price check passes
\* exactly when they differ by at most 50; exactly one known: not a
\* duplicate; both unknown: the check passes.
C8_PriceCheckAsStated ==
    Compared =>
        LET pa == pair[1].price_monthly
            pb == pair[2].price_monthly
        IN  /\ (pa # None /\ pb # None) =>
                   (PricePasses(verdict[1]) <=> Abs(pa[1] - pb[1]) <= 50)
            /\ ((pa = None) # (pb = None)) => ~verdict[1].dup
            /\ (pa = None /\ pb = None) => PricePasses(verdict[1])

-----------------------------------------------------------------------------
(* Properties of generate_fingerprint (checked under SpecFingerprint) *)

\* the fields the claim names as outside the fingerprint input
WithoutIgnored(l) ==
    [l EXCEPT !.scraped_at = 0, !.rating = 0, !.description = << >>,
              !.images = << >>, !.contact_info = << >>]

DifferOnlyInIgnored(a, b) == a # b /\ WithoutIgnored(a) = WithoutIgnored(b)

\* C11: generate_fingerprint is deterministic (every call on the unmodified
\* records returns what the first call returned), and two records that have a
\* source URL and differ
\* only in scrape timestamp, rating, description, images or contact get the
\* same fingerprint.
C11_FingerprintDeterministic ==
    \A k \in 1..Len(fps) :
        /\ fps[k] = fps[1]
        /\ fps[k] = <<GenerateFingerprint(pair[1]), GenerateFingerprint(pair[2])>>
        /\ (pair[1].source_url # "" /\ DifferOnlyInIgnored(pair[1], pair[2]))
               => fps[k][1] = fps[k][2]

\* C11 witness: two Facebook posts with a URL (fingerprinted by content) that
\* differ in the description only, fingerprinted twice with one result.
C11_Witness ==
    /\ Len(fps) = MaxCalls
    /\ pair[1].source = FACEBOOK
    /\ pair[1].source_url # ""
    /\ DifferOnlyInIgnored(pair[1], pair[2])
    /\ pair[1].description # pair[2].description
    /\ fps[1][1] = fps[1][2]
    /\ fps[MaxCalls] = fps[1]

-----------------------------------------------------------------------------
(* Properties of the scoring engine (checked under SpecScore) *)

\* the calls of compute_rating made so far, as <<call, record>> positions
Calls == (1..Len(ratings)) \X {1, 2}

\* the weighted sum of a breakdown, clamped to [1, 10]
ClampedSum(breakdown) == FMax(Whole(1), FMin(Whole(10), WeightedSum(breakdown, 1)))

\* a rating in tenths lies within half a tenth of the value x
RoundsTo(rating, x) ==
    /\ 2 * (rating * x[2] - 10 * x[1]) <= x[2]
    /\ 2 * (10 * x[1] - rating * x[2]) <= x[2]

\* C12: compute_rating is total and bounded: for every record and every
\* configuration it returns without error a rating between 1.0 and 10.0 that
\* is the clamped weighted sum rounded to one decimal place.
C12_RatingBounded ==
    \A c \in Calls :
        LET r == ratings[c[1]][c[2]]
        IN  /\ r.raised = ""
            /\ r.rating \in 10..100
            /\ RoundsTo(r.rating, ClampedSum(r.breakdown))

\* C12 witness: the record whose weighted sum is below 1.0 is rated 1.0, and
\* so the clamp acts.
C12_Witness ==
    /\ pc = "rated"
    /\ pair[1] = Worst
    /\ ~FLeq(Whole(1), WeightedSum(ratings[1][1].breakdown, 1))
    /\ ratings[1][1].rating = 10

\* the price score a call returned, and the price it was given
PriceScore(c) == ratings[c[1]][c[2]].breakdown.price
PriceOf(c) == pair[c[2]].price_monthly

\* C13: score_price is 10.0 for every price p <= 1200, 0.0 for every
\* p > 2200, and non-increasing in p, also across 1850/1851 and 2000/2001.
C13_PriceNonIncreasing ==
    \A c, d \in Calls :
        (PriceOf(c) # None) =>
            /\ PriceOf(c)[1] <= 1200 => PriceScore(c) = Whole(10)
            /\ PriceOf(c)[1] > 2200 => PriceScore(c) = Whole(0)
            /\ (PriceOf(d) # None /\ PriceOf(c)[1] <= PriceOf(d)[1])
                   => FLeq(PriceScore(d), PriceScore(c))

\* C13 witness: prices 1850 and 1851, either side of a tier boundary, score
\* 7.0 and just below 7.0.
C13_Witness ==
    /\ pc = "rated"
    /\ pair[1].price_monthly = Some(1850)
    /\ pair[2].price_monthly = Some(1851)
    /\ ratings[1][1].breakdown.price = Whole(7)
    /\ ratings[1][2].breakdown.price = Frac(1048, 150)
    /\ ~FLeq(Whole(7), ratings[1][2].breakdown.price)

\* the location score a call returned, and what it was given
LocationScore(c) == ratings[c[1]][c[2]].breakdown.location
NeighborhoodOf(c) == pair[c[2]].neighborhood
BoroughOf(c) == pair[c[2]].borough

\* the tiers with an entry equal to the neighbourhood, and those with an
\* entry that contains it or is contained in it (case-insensitively)
ExactTiers(n) ==
    {t \in 1..Len(LOCATION_TIERS) :
        \E k \in 1..Len(LOCATION_TIERS[t]) : Lower(LOCATION_TIERS[t][k]) = Lower(n)}
SubstringTiers(n) ==
    {t \in 1..Len(LOCATION_TIERS) :
        \E k \in 1..Len(LOCATION_TIERS[t]) :
            \/ Contains(Lower(n), Lower(LOCATION_TIERS[t][k]))
            \/ Contains(Lower(LOCATION_TIERS[t][k]), Lower(n))}

\* C14: score_location looks up exact match, then substring match, then the
\* borough: a neighbourhood equal to a tier entry gets the score of that
\* entry's tier (even when it is a substring of an entry of a better tier);
\* otherwise the first tier, in order 1..5, with an entry that contains it
\* or is contained in it wins; otherwise, and always for the empty
\* neighbourhood, the borough fallback score is returned (2.0 for a borough
\* without a score of its own).
C14_LocationLookupOrder ==
    \A c \in Calls :
        LET n == NeighborhoodOf(c)
            fallback == CASE BoroughOf(c) = "Manhattan" -> Whole(5)
                          [] BoroughOf(c) = "Brooklyn" -> Whole(3)
                          [] BoroughOf(c) = "Staten Island" -> Whole(1)
                          [] OTHER -> Whole(2)
        IN  /\ n = << >> => LocationScore(c) = fallback
            /\ (n # << >>) =>
                  /\ \A t \in ExactTiers(n) : LocationScore(c) = LOCATION_TIER_SCORES[t]
                  /\ (ExactTiers(n) = {} /\ SubstringTiers(n) # {}) =>
                        \E t \in SubstringTiers(n) :
                            /\ \A u \in SubstringTiers(n) : t <= u
                            /\ LocationScore(c) = LOCATION_TIER_SCORES[t]
                  /\ SubstringTiers(n) = {} => LocationScore(c) = fallback

\* C14 witness: "Midtown" is an entry of tier 3 and a substring of the tier 1
\* entry "Midtown East"; it scores 6.5, the score of tier 3.
C14_Witness ==
    /\ pc = "rated"
    /\ pair[1].neighborhood = Midtown
    /\ ExactTiers(Midtown) = {3}
    /\ 1 \in SubstringTiers(Midtown)
    /\ ratings[1][1].breakdown.location = Half(13)

\* the timing score a call returned, and what it was given
TimingScore(c) == ratings[c[1]][c[2]].breakdown.timing
FromOf(c) == pair[c[2]].available_from
ToOf(c) == pair[c[2]].available_to

\* the span of the target window, targetEndIdeal - targetStart, in days
TargetSpan == DaysBetween(settings.target_end_date_ideal, settings.target_start_date)

\* C15 as stated: when the span of the target window is zero days,
\* score_timing raises no division error and returns 5.0 for every listing
\* availability window.
C15_AsStated ==
    \A c \in Calls :
        TargetSpan = 0 =>
            /\ ratings[c[1]][c[2]].raised = ""
            /\ TimingScore(c) = Whole(5)

\* the listing window, a missing end taken as June 1 / December 31 of 2026,
\* holds the day d
WindowHolds(c, d) ==
    /\ FromOf(c) # None => DateLeq(FromOf(c)[1], d)
    /\ FromOf(c) = None => DateLeq(<<2026, 6, 1>>, d)
    /\ ToOf(c) # None => DateLeq(d, ToOf(c)[1])
    /\ ToOf(c) = None => DateLeq(d, <<2026, 12, 31>>)

\* C15 amended: when the span of the target window is zero days,
\* score_timing raises no division error; it returns 5.0 when both listing
\* dates are unknown or the listing window holds the target day, and 0.0
\* when the listing window does not hold the target day.
C15_ZeroSpanNeutralOrZero ==
    \A c \in Calls :
        TargetSpan = 0 =>
            /\ ratings[c[1]][c[2]].raised = ""
            /\ TimingScore(c) # ZeroDivisionError
            /\ (FromOf(c) = None /\ ToOf(c) = None) => TimingScore(c) = Whole(5)
            /\ ((FromOf(c) # None \/ ToOf(c) # None)
                    /\ WindowHolds(c, settings.target_start_date))
                  => TimingScore(c) = Whole(5)
            /\ ((FromOf(c) # None \/ ToOf(c) # None)
                    /\ ~WindowHolds(c, settings.target_start_date))
                  => TimingScore(c) = Whole(0)

\* C15 witness: target window of zero days on July 1, listing from June 1 to
\* August 30: the division is not reached and the score is 5.0.
C15_Witness ==
    /\ pc = "rated"
    /\ TargetSpan = 0
    /\ pair[1].available_from = Some(<<2026, 6, 1>>)
    /\ pair[1].available_to = Some(<<2026, 8, 30>>)
    /\ ratings[1][1].raised = ""
    /\ ratings[1][1].breakdown.timing = Whole(5)

\* the listing window, a missing date replaced by its default
StartOf(c) == IF FromOf(c) # None THEN FromOf(c)[1] ELSE <<2026, 6, 1>>
EndOf(c) == IF ToOf(c) # None THEN ToOf(c)[1] ELSE <<2026, 12, 31>>

\* the days of the target window [targetStart, targetEndIdeal] the listing covers
OverlapDays(c) ==
    DaysBetween(DateMin(EndOf(c), settings.target_end_date_ideal),
                DateMax(StartOf(c), settings.target_start_date))

\* the end bonus by the configured ideal and minimum-acceptable end dates
ConfiguredEndBonus(c) ==
    IF DateLeq(settings.target_end_date_ideal, EndOf(c)) THEN Whole(1)
    ELSE IF DateLeq(settings.target_end_date_min, EndOf(c)) THEN Half(1)
    ELSE Whole(0)

\* min(3.0, daysLate * 0.2) when more than 7 days late
StartPenalty(c) ==
    LET late == DaysBetween(StartOf(c), settings.target_start_date)
    IN  IF late > 7 THEN FMin(Whole(3), Frac(2 * late, 10)) ELSE Whole(0)

\* C16 as stated, for the listing windows that overlap a target window of
\* positive span: with at least one known listing date, score_timing equals
\* clamp(coverageRatio * 8.0 + endBonus - startPenalty, 0, 10), where
\* endBonus is 1.0 when the listing end is on or after the configured ideal
\* end, 0.5 when it is on or after the configured minimum-acceptable end and
\* 0 otherwise.
C16_TimingByConfiguredDates ==
    \A c \in Calls :
        ( /\ FromOf(c) # None \/ ToOf(c) # None
          /\ TargetSpan > 0
          /\ OverlapDays(c) >= 0 )
        => TimingScore(c) =
              FMax(Whole(0), FMin(Whole(10),
                  FSub(FAdd(FMul(Frac(OverlapDays(c), TargetSpan), Whole(8)),
                            ConfiguredEndBonus(c)),
                       StartPenalty(c))))

\* two calls on records with known start dates and one end date
SameEnd(c, d) == FromOf(c) # None /\ FromOf(d) # None /\ ToOf(c) = ToOf(d)

\* C17: late starts are penalised: for a fixed listing end date and target
\* window, score_timing is non-increasing in available_from, and a listing
\* that starts more than 7 days after the target start scores strictly lower
\* than the same listing starting on the target start, whenever the on-time
\* score is positive.
C17_LateStartPenalised ==
    \A c, d \in Calls :
        SameEnd(c, d) =>
            /\ DateLeq(FromOf(c)[1], FromOf(d)[1]) => FLeq(TimingScore(d), TimingScore(c))
            /\ ( /\ FromOf(c)[1] = settings.target_start_date
                 /\ DaysBetween(FromOf(d)[1], settings.target_start_date) > 7
                 /\ ~FLeq(TimingScore(c), Whole(0)) )
               => ~FLeq(TimingScore(c), TimingScore(d))

\* C17 witness: target start July 1, the same listing end, one record
\* starting July 1 and one starting July 9 (8 days late): the late one is
\* scored, and lower.
C17_Witness ==
    /\ pc = "rated"
    /\ settings.target_start_date = <<2026, 7, 1>>
    /\ TargetSpan > 0
    /\ pair[1].available_from = Some(<<2026, 7, 1>>)
    /\ pair[2].available_from = Some(<<2026, 7, 9>>)
    /\ pair[1].available_to = pair[2].available_to
    /\ ~FLeq(ratings[1][2].breakdown.timing, Whole(0))
    /\ ~FLeq(ratings[1][1].breakdown.timing, ratings[1][2].breakdown.timing)

\* the bonus score a call returned, and the record it was given
BonusScore(c) == ratings[c[1]][c[2]].breakdown.bonus
RecordOf(c) == pair[c[2]]

\* an increment, when its signal is there
Increment(signal, amount) == IF signal THEN amount ELSE Whole(0)

\* C18: score_bonus is the sum of the applicable increments (+3.0 furnished
\* is true, +2.0 at least one image, +2.0 source in the trusted set, +1.5
\* address present, +1.5 contact info present) capped at 10.0; it lies in
\* [0, 10], is 0.0 for a record without signals from an untrusted source,
\* and a furnished value of false or unknown adds nothing.
C18_BonusIsCappedSum ==
    \A c \in Calls :
        LET l == RecordOf(c)
            sum == FAdd(Increment(l.is_furnished = Some(TRUE), Whole(3)),
                   FAdd(Increment(Len(l.images) >= 1, Whole(2)),
                   FAdd(Increment(l.source \in TRUSTED_SOURCES, Whole(2)),
                   FAdd(Increment(l.address # << >>, Half(3)),
                        Increment(l.contact_info # << >>, Half(3))))))
        IN  /\ BonusScore(c) = FMin(Whole(10), sum)
            /\ FLeq(Whole(0), BonusScore(c)) /\ FLeq(BonusScore(c), Whole(10))
            /\ ( /\ l.is_furnished # Some(TRUE) /\ l.images = << >>
                 /\ l.source \notin TRUSTED_SOURCES
                 /\ l.address = << >> /\ l.contact_info = << >> )
               => BonusScore(c) = Whole(0)
            /\ l.is_furnished # Some(TRUE) =>
                  BonusScore(c) = score_bonus([l EXCEPT !.is_furnished = None])

\* C18 witness: an unfurnished (false) record from a trusted source with an
\* image, an address and contact info scores 2.0 + 2.0 + 1.5 + 1.5 = 7.0.
C18_Witness ==
    /\ pc = "rated"
    /\ pair[1].is_furnished = Some(FALSE)
    /\ pair[1].source \in TRUSTED_SOURCES
    /\ pair[1].images # << >>
    /\ pair[1].address # << >>
    /\ pair[1].contact_info # << >>
    /\ ratings[1][1].breakdown.bonus = Whole(7)

\* every call returned what the first call returned, with a breakdown over
\* exactly the five dimensions
SameResults ==
    \A c \in Calls :
        /\ ratings[c[1]][c[2]] = ratings[1][c[2]]
        /\ DOMAIN ratings[c[1]][c[2]].breakdown =
               {"price", "location", "type", "timing", "bonus"}

\* C19: compute_rating is pure: a call leaves the records (their rating,
\* rating_breakdown and id included) and the configuration unchanged, and
\* two calls with the same record and configuration return the same rating
\* and the same breakdown, whose keys are exactly price, location, type,
\* timing, bonus.
C19_ComputeRatingPure ==
    /\ []SameResults
    /\ [][ratings' # ratings => (pair' = pair /\ settings' = settings)]_vars

\* C19 witness: a record rated twice; the second result is the first, and
\* the record still has the rating 0.0 and the empty breakdown it came with.
C19_Witness ==
    /\ pc = "rated"
    /\ Len(ratings) = MaxCalls
    /\ ratings[MaxCalls] = ratings[1]
    /\ ratings[1][1].rating # 0
    /\ pair[1].rating = 0
    /\ pair[1].rating_breakdown = << >>

-----------------------------------------------------------------------------
(* Properties of parse_date (checked under SpecDate) *)

\* year, month and day denote a day of the calendar
IsRealDate(d) == d[1] \in 1..9999 /\ d[2] \in 1..12 /\ d[3] >= 1 /\ d[3] <= DaysInMonth(d[1], d[2])

\* C20 as stated: parse_date never raises; on a text in one of the accepted
\* forms (ISO YYYY-MM-DD, MM/DD[/YYYY], Month Day, Day Month) whose day and
\* month denote no real date it returns None, so that whatever it returns
\* other than None is a real date.
C20_NeverRaises ==
    parsed.called =>
        /\ ~parsed.raised
        /\ parsed.value # None => IsRealDate(parsed.value[1])

-----------------------------------------------------------------------------
(* Further properties of _are_likely_duplicates (checked under SpecPair) *)

\* description, else raw text, cut to 200 characters
TextOf(l) ==
    LET t == IF l.description # << >> THEN l.description ELSE l.raw_text
    IN  IF Len(t) > 200 THEN SubSeq(t, 1, 200) ELSE t

\* C24: for two records that pass the price check, _are_likely_duplicates
\* returns true exactly when their neighbourhoods are equal ignoring case or
\* at least one is empty, their listing types are equal, both have non-empty
\* comparison text and the text similarity is strictly greater than 70; if
\* either side has no text the pair is never a duplicate.
C24_DuplicateIffAllChecks ==
    Compared =>
        LET a == pair[1]
            b == pair[2]
        IN  /\ PricePasses(verdict[1]) =>
                  ( verdict[1].dup <=>
                      /\ \/ Lower(a.neighborhood) = Lower(b.neighborhood)
                         \/ a.neighborhood = << >>
                         \/ b.neighborhood = << >>
                      /\ a.listing_type = b.listing_type
                      /\ TextOf(a) # << >> /\ TextOf(b) # << >>
                      /\ TokenSortRatio(TextOf(a), TextOf(b)) > 70 )
            /\ (TextOf(a) = << >> \/ TextOf(b) = << >>) => ~verdict[1].dup

\* C24 witness: prices within 50, one neighbourhood empty and the other not,
\* one type, similar texts: the pair is a duplicate.
C24_Witness ==
    /\ Compared
    /\ PricePasses(verdict[1])
    /\ pair[1].neighborhood = << >> /\ pair[2].neighborhood # << >>
    /\ pair[1].listing_type = pair[2].listing_type
    /\ TextOf(pair[1]) # TextOf(pair[2])
    /\ verdict[1].dup

-----------------------------------------------------------------------------
(* Further properties of deduplicate (checked under SpecDedup) *)

\* positions of the batch that were accepted, and those accepted before i
Accepted == Range(kept)
AcceptedBefore(i) == {j \in Accepted : j < i}

\* the fingerprint of record i is unseen, and no record accepted before it
\* has its fingerprint or is its likely duplicate
IsNew(i) ==
    /\ listings[i].id \notin seen_fingerprints
    /\ \A j \in AcceptedBefore(i) :
          /\ listings[j].id # listings[i].id
          /\ ~AreLikelyDuplicates(listings[i], listings[j])

\* a record is in the output iff it is new in that sense, and the first
\* unseen record of the batch is accepted
AcceptedIffNew ==
    /\ \A i \in 1..Len(listings) : i \in Accepted <=> IsNew(i)
    /\ \A i \in 1..Len(listings) :
          ( /\ listings[i].id \notin seen_fingerprints
            /\ \A j \in 1..(i - 1) : listings[j].id \in seen_fingerprints )
          => i \in Accepted

\* the records of the batch with the fingerprint of record i
ExactGroup(i) == {j \in 1..Len(listings) : listings[j].id = listings[i].id}
IsEarliest(i) == \A j \in ExactGroup(i) : i <= j

\* C25 as stated: a record is in the output iff its fingerprint is unseen and
\* no record accepted earlier has its fingerprint or is its likely duplicate;
\* the first unseen record is accepted; and of any group of unseen exact
\* duplicates the earliest member is the one kept.
C25_AsStated ==
    Returned =>
        /\ AcceptedIffNew
        /\ \A i \in 1..Len(listings) :
              ( /\ listings[i].id \notin seen_fingerprints
                /\ IsEarliest(i)
                /\ ExactGroup(i) # {i} )
              => ExactGroup(i) \cap Accepted = {i}

\* C25 amended: a record is in the output iff its fingerprint is unseen and
\* no record accepted earlier has its fingerprint or is its likely duplicate;
\* the first unseen record is accepted; of any group of exact duplicates at
\* most one member is kept, and it is the earliest member unless that one is
\* a likely duplicate of a record accepted before it.
C25_AcceptedIffNew ==
    Returned =>
        /\ AcceptedIffNew
        /\ \A i \in 1..Len(listings) :
              /\ Cardinality(ExactGroup(i) \cap Accepted) <= 1
              /\ ( /\ listings[i].id \notin seen_fingerprints
                   /\ IsEarliest(i)
                   /\ ~IsFuzzyDuplicate(listings[i],
                          [k \in 1..Cardinality(AcceptedBefore(i)) |-> new_listings[k]]) )
                 => ExactGroup(i) \cap Accepted = {i}

\* C25 witness: a batch of three with nothing seen; the second record is
\* dropped as a likely duplicate of the first, and the third, which has the
\* fingerprint of the second but is no likely duplicate of the first, is kept.
C25_Witness ==
    /\ Returned /\ round = 1
    /\ seen_fingerprints = {}
    /\ Len(listings) = 3
    /\ kept = <<1, 3>>
    /\ listings[2].id = listings[3].id
    /\ listings[2].id # listings[1].id
    /\ AreLikelyDuplicates(listings[2], listings[1])

-----------------------------------------------------------------------------
(* Further properties of main (checked under Spec) *)

\* main is about to call append_listings(new_listings) (line 192)
HandsToPersistence == pc = "scored" /\ ~dry_run /\ sheet_sync

\* the conditions of validate_listing, spelled out
PriceSane(l) ==
    l.price_monthly = None
        \/ (l.price_monthly[1] >= 100 /\ l.price_monthly[1] <= 15000)
DatesSane(l) ==
    /\ l.available_from = None \/ l.available_from[1][1] \in {2025, 2026}
    /\ l.available_to = None \/ l.available_to[1][1] \in {2026, 2027}
HasContent(l) == l.source_url # "" \/ l.description # << >> \/ l.raw_text # << >>

\* the order of the phases of main
StageOrder ==
    {<<"idle", "scraped">>, <<"scraped", "filtered">>, <<"filtered", "validated">>,
     <<"validated", "fingerprinted">>, <<"fingerprinted", "dedup">>,
     <<"dedup", "returned">>, <<"returned", "scored">>, <<"scored", "idle">>}

PersistableState ==
    HandsToPersistence =>
        \A k \in 1..Len(new_listings) :
            LET l == new_listings[k]
            IN  /\ PriceSane(l) /\ DatesSane(l) /\ HasContent(l)
                /\ l.id = GenerateFingerprint(l)
                /\ l.rating >= 10 /\ l.rating <= 100
                /\ l.rating = compute_rating(l, settings).rating
                /\ l.rating_breakdown = compute_rating(l, settings).breakdown
                /\ DOMAIN l.rating_breakdown =
                       {"price", "location", "type", "timing", "bonus"}

\* C26: every listing main hands to append_listings has passed the checks of
\* validate_listing, has the id generate_fingerprint gives for its fields, and
\* is scored with a rating in [1.0, 10.0] and a five-key breakdown; the phases
\* run in the order filter, validate, fingerprint, dedup, score, persist, and
\* the sheet is written by the persist phase only.
C26_PersistedAreValidatedFingerprintedScored ==
    /\ []PersistableState
    /\ [][ /\ pc' # pc => <<pc, pc'>> \in StageOrder
           /\ (worksheet' # worksheet \/ seen_ws' # seen_ws) => pc = "scored" ]_vars

\* C26 witness: a run with a sheet, not dry, whose scrapers returned an
\* invalid record as well, hands one scored record to append_listings.
C26_Witness ==
    /\ HandsToPersistence
    /\ Len(new_listings) = 1
    /\ new_listings[1].id = GenerateFingerprint(new_listings[1])
    /\ new_listings[1].rating >= 10
    /\ new_listings[1].source = FACEBOOK


\* the listings of the scrapers of the run that did not raise, in registry order
RECURSIVE SucceededFrom(_)
SucceededFrom(k) ==
    IF k > Len(scrapes) THEN << >>
    ELSE (IF scrapes[k].raised THEN << >> ELSE scrapes[k].results) \o SucceededFrom(k + 1)
Succeeded == SucceededFrom(1)
SomeScraperRaised == \E k \in 1..Len(scrapes) : scrapes[k].raised

\* the record went through the pipeline: it was filtered out, or rejected by
\* validation, or its fingerprint was seen, or the returned list holds it or
\* a record it duplicates
WentThrough(l) ==
    LET fp == [l EXCEPT !.id = GenerateFingerprint(l)]
    IN  \/ ~KeepsPost(l)
        \/ ~(PriceSane(l) /\ DatesSane(l) /\ HasContent(l))
        \/ fp.id \in seen_fingerprints
        \/ \E k \in 1..Len(new_listings) : new_listings[k].id = fp.id
        \/ IsFuzzyDuplicate(fp, new_listings)

\* C27: a scraper that raises contributes the empty list, the other scrapers
\* are still run (Phase 1 ends with the listings of every scraper that did
\* not raise), and those listings go through the filter, validation, dedup
\* and scoring to the point where they are persisted.
C27_ScraperFailuresIsolated ==
    /\ pc = "scraped" => listings = Succeeded
    /\ pc = "scored" =>
          /\ \A k \in 1..Len(Succeeded) : WentThrough(Succeeded[k])
          /\ \A k \in 1..Len(new_listings) :
                /\ new_listings[k].rating >= 10
                /\ \E j \in 1..Len(Succeeded) :
                      Succeeded[j].source_url = new_listings[k].source_url
                          /\ Succeeded[j].raw_text = new_listings[k].raw_text

\* C27 witness: the craigslist scraper raised, the facebook scraper returned
\* a record, and the run has written that record to the sheet.
C27_Witness ==
    /\ pc = "idle" /\ runs = 1
    /\ scrapes[1].raised /\ ~scrapes[2].raised
    /\ Len(scrapes[2].results) = 1
    /\ new_listings # << >>
    /\ new_listings[1].rating >= 10
    /\ \E k \in 1..Len(worksheet) : worksheet[k].id = new_listings[1].id
    /\ new_listings[1].id = GenerateFingerprint(scrapes[2].results[1])


\* C28 as stated: a listing available from the target start through the
\* ideal end of a target window of positive span gets the timing score 10.0.
C28_FullWindowScoresTen ==
    \A c \in Calls :
        ( /\ TargetSpan > 0
          /\ FromOf(c) = Some(settings.target_start_date)
          /\ ToOf(c) = Some(settings.target_end_date_ideal) )
        => FLeq(Whole(10), TimingScore(c))

\* what score_timing gives such a listing under the default window
FullWindowScoresNine ==
    \A c \in Calls :
        ( /\ settings.target_start_date = <<2026, 7, 1>>
          /\ settings.target_end_date_ideal = <<2026, 9, 30>>
          /\ FromOf(c) = Some(settings.target_start_date)
          /\ ToOf(c) = Some(settings.target_end_date_ideal) )
        => FLeq(Whole(9), TimingScore(c)) /\ FLeq(TimingScore(c), Whole(9))

-----------------------------------------------------------------------------
(* Frame of deduplicate (checked under SpecDedup) *)

\* the call runs on the engine as constructed (nothing persisted since)
OnSeededEngine == pc \in {"dedup", "returned"} /\ round \in {1, 3}

\* what a step of deduplicate may do to record k of the batch
OnlyAssignsId(before, after) ==
    \/ after = before
    \/ before.id = NoId /\ after = [before EXCEPT !.id = GenerateFingerprint(before)]

\* C29: deduplicate leaves the seen set as it was seeded at construction, so a
\* second call on the same engine with the same batch returns the same
\* records; the only change to an input record is that a record without an id
\* gets its fingerprint as id (an id assigned upstream is kept).
C29_SeenSetUnchanged ==
    /\ [](OnSeededEngine =>
             seen_fingerprints = DeduplicatorInit(TRUE, worksheet, seen_ws, TRUE, TRUE))
    /\ []((Returned /\ round = 3) => new_listings = first_out)
    /\ [][ pc = "dedup" =>
             /\ seen_fingerprints' = seen_fingerprints
             /\ Len(listings') = Len(listings)
             /\ \A k \in 1..Len(listings) : OnlyAssignsId(listings[k], listings'[k]) ]_vars

\* C29 witness: the second call on the same engine has returned; the batch
\* holds a record with an upstream id, which was returned with that id, and a
\* record that was dropped, and the seen set is not empty.
C29_Witness ==
    /\ Returned /\ round = 3
    /\ seen_fingerprints # {}
    /\ new_listings # << >>
    /\ new_listings = first_out
    /\ Len(new_listings) < Len(listings)
    /\ \E k \in 1..Len(new_listings) :
          new_listings[k].id = UpstreamId("x")
              /\ new_listings[k].id # GenerateFingerprint(new_listings[k])

-----------------------------------------------------------------------------
(* Properties of the price parser (checked under SpecPrice) *)

\* the integer part of a fraction that is not negative
Truncated(x) == CHOOSE n \in 0..x[1] : n * x[2] <= x[1] /\ x[1] < (n + 1) * x[2]

\* the monthly value by the period the text names, nightly before weekly
\* before yearly, and by the size of the amount when it names none
ResolvePeriod(amount, periods) ==
    IF "night" \in periods THEN Truncated(FMul(amount, Whole(30)))
    ELSE IF "week" \in periods THEN Truncated(FMul(amount, Frac(433, 100)))
    ELSE IF "year" \in periods THEN Truncated(FMul(amount, Frac(1, 12)))
    ELSE LET value == Truncated(amount)
         IN  IF value < 200 THEN value * 30
             ELSE IF value <= 599 THEN Truncated(FMul(Whole(value), Frac(433, 100)))
             ELSE value

\* C23: for every amount and cue combination, a nightly cue gives amount*30,
\* a weekly cue amount*4.33 truncated, a yearly cue amount/12 truncated,
\* nightly before weekly before yearly; with no period cue a value under 200
\* is returned times 30, a value from 200 to 599 times 4.33 truncated, and a
\* value of 600 or more unchanged.
C23_PeriodResolution ==
    pc = "priced" =>
        \A d \in DollarSigns, a \in PriceAmounts, c \in PriceCues :
            raw = d \o a.text \o c.text
                => parsed = ReturnsValue(Some(ResolvePeriod(a.value, c.periods)))

\* C23 witness: "$450/week nightly" names a week and a night, and is taken
\* as nightly: 13500.
C23_Witness ==
    /\ pc = "priced"
    /\ raw = <<40, 34, 35, 30, 29, 23, 5, 5, 11, 0, 14, 9, 7, 8, 20, 12, 25>>
    /\ parsed = ReturnsValue(Some(13500))

\* what each pattern of extract_price_from_text yields on the text
PatternResult(p) ==
    IF SearchPattern(p, raw) = << >> THEN None ELSE parse_price(SearchPattern(p, raw))
Acceptable(p) ==
    PatternResult(p) # None /\ PatternResult(p)[1] >= 100 /\ PatternResult(p)[1] <= 15000

\* C21: extract_price_from_text returns None or an integer in [100, 15000]:
\* the value of the first pattern whose first match parses to a value in that
\* range, a pattern whose match parses to a value outside it being passed
\* over, and None when no pattern yields a value in the range.
C21_ExtractInRange ==
    pc = "extracted" =>
        /\ ~parsed.raised
        /\ parsed.value # None => (parsed.value[1] >= 100 /\ parsed.value[1] <= 15000)
        /\ \A p \in 1..3 :
              (Acceptable(p) /\ \A q \in 1..(p - 1) : ~Acceptable(q))
                  => parsed.value = PatternResult(p)
        /\ (\A p \in 1..3 : ~Acceptable(p)) => parsed.value = None

\* C21 witness: in "$20000 or 1800/mo" the first pattern finds $20000, which
\* is out of range, and the second finds 1800/mo: 1800 is returned.
C21_Witness ==
    /\ pc = "extracted"
    /\ raw = <<40, 32, 30, 30, 30, 30, 0, 15, 18, 0, 31, 38, 30, 30, 29, 13, 15>>
    /\ PatternResult(1) = Some(20000)
    /\ parsed = ReturnsValue(Some(1800))

-----------------------------------------------------------------------------
(* Properties of extract_neighborhood (checked under SpecLocation) *)

\* the boroughs of the data model (models/enums.py, Borough) and the keywords
\* that name them: those of borough_patterns, and "staten island"
DataModelBoroughs == {"Manhattan", "Brooklyn", "Queens", "Bronx", "Staten Island"}
BoroughKeywords(b) ==
    IF b = "Staten Island" THEN { <<19, 20, 1, 20, 5, 14, 0, 9, 19, 12, 1, 14, 4>> }
    ELSE UNION {{borough_patterns[k].words[w] : w \in 1..Len(borough_patterns[k].words)} :
                   k \in {j \in 1..Len(borough_patterns) : borough_patterns[j].borough = b}}

NamesBorough(s, b) == \E w \in BoroughKeywords(b) : WordIn(s, w)
HasAlias(s) == \E k \in 1..Len(NEIGHBORHOOD_ALIASES) : AliasIn(s, NEIGHBORHOOD_ALIASES[k].alias)
HasName(s) ==
    \E k \in 1..Len(NEIGHBORHOOD_BOROUGHS) : Contains(s, Lower(NEIGHBORHOOD_BOROUGHS[k].name))

\* C22 as stated: extract_neighborhood returns borough Unknown only when the
\* text holds no known alias, no canonical neighbourhood name and no keyword
\* of any of the five boroughs of the data model; when only a borough keyword
\* is there, it returns the empty neighbourhood with a borough the text names.
C22_UnknownOnlyWithoutSignal ==
    pc = "located" =>
        LET lower == Strip(Lower(raw))
            neighborhood == parsed.value[1]
            borough == parsed.value[2]
        IN  /\ borough = "Unknown" =>
                  /\ ~HasAlias(lower) /\ ~HasName(lower)
                  /\ \A b \in DataModelBoroughs : ~NamesBorough(lower, b)
            /\ ( /\ ~HasAlias(lower) /\ ~HasName(lower)
                 /\ \E b \in DataModelBoroughs : NamesBorough(lower, b) )
               => neighborhood = << >> /\ borough \in DataModelBoroughs
                      /\ NamesBorough(lower, borough)

\* the same for the four boroughs borough_patterns knows
UnknownOnlyWithoutKnownSignal ==
    pc = "located" =>
        LET lower == Strip(Lower(raw))
            known == DataModelBoroughs \ {"Staten Island"}
        IN  /\ parsed.value[2] = "Unknown" =>
                  /\ ~HasAlias(lower) /\ ~HasName(lower)
                  /\ \A b \in known : ~NamesBorough(lower, b)
            /\ ( /\ ~HasAlias(lower) /\ ~HasName(lower)
                 /\ \E b \in known : NamesBorough(lower, b) )
               => parsed.value[1] = << >> /\ parsed.value[2] \in known
                      /\ NamesBorough(lower, parsed.value[2])

-----------------------------------------------------------------------------
(* Properties of the cleanup script (checked under SpecCleanup) *)

\* C30 as stated: for every scored listing, the listing rebuilt from its row
\* by row_to_listing gets from compute_rating, under the same configuration,
\* the rating that was stored, and the cleanup script leaves the rating of
\* the row as it was.
C30_RescoreRoundTrip ==
    pc = "cleaned" =>
        /\ ratings[1].rating = new_listings[1].rating
        /\ worksheet[1].rating = new_listings[1].rating

\* the round trip holds for the listings without images and address
RoundTripWithoutImagesAndAddress ==
    (pc = "cleaned" /\ listings[1].images = << >> /\ listings[1].address = << >>)
        => /\ ratings[1].rating = new_listings[1].rating
           /\ worksheet[1].rating = new_listings[1].rating

=============================================================================
